---- MODULE Spec2Model ----
(***************************************************************************)
(* A model of src/src/context.js, the semantic-analysis and code-synthesis *)
(* core of the Oberon to JavaScript translator.  The translator is a set   *)
(* of parse contexts driven by parser events.  Each group of contexts is   *)
(* modelled as a component with a state variable of its own and a          *)
(* specification of its own (SpecCast, SpecFor, ...); while one component  *)
(* runs, the variables of the others rest at their idle value.             *)
(***************************************************************************)
EXTENDS Integers, Sequences, FiniteSets, TLC

VARIABLES cast, forLoop, desig, fwd, unit, rec, arr, caseStmt, expr, constDecl, expo, typeDecl, chain, imp, relExpr, setLit, ctrl, names, promo, heading

vars == <<cast, forLoop, desig, fwd, unit, rec, arr, caseStmt, expr, constDecl, expo, typeDecl, chain, imp, relExpr, setLit, ctrl, names, promo, heading>>

(***************************************************************************)
(* Bounds of the model.                                                    *)
(***************************************************************************)
MaxRecords == 3
MaxStep == 2
MaxLen == 2
MaxNames == 3
MaxProcs == 3
MaxTypes == 2
MaxFields == 1
MaxDims == 2
MaxLabels == 2
MaxOperands == 3
MaxConsts == 2
MaxDepth == 3
\* The controlling expressions of one run of statements and the statements
\* open inside one another.
MaxConditions == 2
MaxNesting == 2

(***************************************************************************)
(* Idle values: the value of a component's variable while another          *)
(* component is being checked.                                             *)
(***************************************************************************)
CastIdle == [phase |-> "idle"]
ForIdle == [phase |-> "idle"]
DesigIdle == [phase |-> "idle"]
FwdIdle == [phase |-> "idle"]
UnitIdle == [phase |-> "idle"]
RecIdle == [phase |-> "idle"]
ArrIdle == [phase |-> "idle"]
CaseIdle == [phase |-> "idle"]
ExprIdle == [phase |-> "idle"]
ConstIdle == [phase |-> "idle"]
ExportIdle == [phase |-> "idle"]
TypeDeclIdle == [phase |-> "idle"]
ChainIdle == [phase |-> "idle"]
ImportIdle == [phase |-> "idle"]
RelIdle == [phase |-> "idle"]
SetIdle == [phase |-> "idle"]
CtrlIdle == [phase |-> "idle"]
NamesIdle == [phase |-> "idle"]
PromoIdle == [phase |-> "idle"]
HeadingIdle == [phase |-> "idle"]

IdleExcept(c) ==
    /\ IF c = "cast" THEN TRUE ELSE cast = CastIdle
    /\ IF c = "for" THEN TRUE ELSE forLoop = ForIdle
    /\ IF c = "desig" THEN TRUE ELSE desig = DesigIdle
    /\ IF c = "fwd" THEN TRUE ELSE fwd = FwdIdle
    /\ IF c = "unit" THEN TRUE ELSE unit = UnitIdle
    /\ IF c = "rec" THEN TRUE ELSE rec = RecIdle
    /\ IF c = "arr" THEN TRUE ELSE arr = ArrIdle
    /\ IF c = "case" THEN TRUE ELSE caseStmt = CaseIdle
    /\ IF c = "expr" THEN TRUE ELSE expr = ExprIdle
    /\ IF c = "const" THEN TRUE ELSE constDecl = ConstIdle
    /\ IF c = "export" THEN TRUE ELSE expo = ExportIdle
    /\ IF c = "typeDecl" THEN TRUE ELSE typeDecl = TypeDeclIdle
    /\ IF c = "chain" THEN TRUE ELSE chain = ChainIdle
    /\ IF c = "import" THEN TRUE ELSE imp = ImportIdle
    /\ IF c = "relation" THEN TRUE ELSE relExpr = RelIdle
    /\ IF c = "set" THEN TRUE ELSE setLit = SetIdle
    /\ IF c = "ctrl" THEN TRUE ELSE ctrl = CtrlIdle
    /\ IF c = "names" THEN TRUE ELSE names = NamesIdle
    /\ IF c = "promo" THEN TRUE ELSE promo = PromoIdle
    /\ IF c = "heading" THEN TRUE ELSE heading = HeadingIdle

(***************************************************************************)
(* checkTypeCast: the guarded cast p(T) and the type test p IS T.          *)
(*                                                                         *)
(* Record types are numbered 1..MaxRecords; base[r] is the record r        *)
(* extends, 0 when it extends none (Type.recordBase gives undefined).  A   *)
(* base is declared before its extensions, so base[r] < r.                 *)
(***************************************************************************)
RecordIds == 1..MaxRecords

BaseMaps == {b \in [RecordIds -> 0..MaxRecords] : \A r \in RecordIds : b[r] < r}

RecordType(r) == [kind |-> "Record", id |-> r]
PointerType(r) == [kind |-> "Pointer", id |-> r]
IntegerType == [kind |-> "Basic", id |-> 0]

CastTypes == {RecordType(r) : r \in RecordIds}
                \cup {PointerType(r) : r \in RecordIds} \cup {IntegerType}

\* Type.pointerBase: the record a pointer type points to.
pointerBase(t) == RecordType(t.id)

\* Type.recordBase, 0 for undefined.
recordBase(base, r) == base[r]

\* The loop of lines 126-128: t = recordBase(toType);
\* while (t && t != fromType) t = recordBase(t).
RECURSIVE extensionWalk(_, _, _)
extensionWalk(base, t, from) ==
    IF t # 0 /\ t # from THEN extensionWalk(base, recordBase(base, t), from)
    ELSE t

\* A walk that starts at the target itself.
walkStartAtTarget(base, to) == to

\* The start of the walk: the base of the target (line 126).
walkStart(base, to) == recordBase(base, to)

\* fromInfo.isReference() of the designator's info; "none" is the undefined
\* info of an expression that has no designator (type test only).
isReference(info) == info = "ref"

\* A cast check whose walk stops after the direct base.
checkTypeCastDirectBase(base, fromInfo, fromType, toType) ==
    IF fromType.kind \notin {"Pointer", "Record"} THEN "PointerOrRecordExpected"
    ELSE IF fromType.kind = "Record" /\ ~isReference(fromInfo) THEN "ValueVariable"
    ELSE IF fromType.kind = "Record" /\ toType.kind # "Record" THEN "RecordTypeExpected"
    ELSE IF fromType.kind = "Pointer" /\ toType.kind # "Pointer" THEN "PointerTypeExpected"
    ELSE IF recordBase(base, toType.id) = fromType.id THEN "ok" ELSE "InvalidCast"

\* A cast check that does not ask whether a record operand is a reference.
checkTypeCastAnyVariable(base, fromInfo, fromType, toType) ==
    IF fromType.kind \notin {"Pointer", "Record"} THEN "PointerOrRecordExpected"
    ELSE IF fromType.kind = "Record" /\ toType.kind # "Record" THEN "RecordTypeExpected"
    ELSE IF fromType.kind = "Pointer" /\ toType.kind # "Pointer" THEN "PointerTypeExpected"
    ELSE LET from == IF fromType.kind = "Pointer" THEN pointerBase(fromType).id
                     ELSE fromType.id
                 to == IF toType.kind = "Pointer" THEN pointerBase(toType).id
                       ELSE toType.id
             t == extensionWalk(base, walkStart(base, to), from)
         IN IF t = 0 THEN "InvalidCast" ELSE "ok"

\* checkTypeCast(fromInfo, fromType, toType, msg): "ok" when it returns, else
\* the error it throws.  msg only words the error text.
checkTypeCast(base, fromInfo, fromType, toType) ==
    IF fromType.kind \notin {"Pointer", "Record"} THEN "PointerOrRecordExpected"
    ELSE IF fromType.kind = "Record" /\ ~isReference(fromInfo) THEN "ValueVariable"
    ELSE IF fromType.kind = "Record" /\ toType.kind # "Record" THEN "RecordTypeExpected"
    ELSE IF fromType.kind = "Pointer" /\ toType.kind # "Pointer" THEN "PointerTypeExpected"
    ELSE LET from == IF fromType.kind = "Pointer" THEN pointerBase(fromType).id
                     ELSE fromType.id
             to == IF toType.kind = "Pointer" THEN pointerBase(toType).id
                   ELSE toType.id
             t == extensionWalk(base, walkStart(base, to), from)
         IN IF t = 0 THEN "InvalidCast" ELSE "ok"

\* The inputs of one cast or type test.  An expression of record type always
\* has a designator, so only a non-record operand of IS has no info.
CastInputs ==
    {c \in [phase : {"ready"}, base : BaseMaps, msg : {"type cast", "type test"},
            info : {"ref", "value", "none"}, fromType : CastTypes,
            toType : CastTypes, result : {"none"}] :
        c.info = "none" => (c.msg = "type test" /\ c.fromType.kind # "Record")}

OthersCast == <<forLoop, desig, fwd, unit, rec, arr, caseStmt, expr, constDecl, expo, typeDecl, chain, imp, relExpr, setLit, ctrl, names, promo, heading>>

\* Designator.handleTypeCast (line 438): the check of a guarded cast.
DesignatorHandleTypeCast ==
    /\ cast.phase = "ready"
    /\ cast.msg = "type cast"
    /\ cast' = [cast EXCEPT !.phase = "done",
                 !.result = checkTypeCast(cast.base, cast.info, cast.fromType, cast.toType)]
    /\ UNCHANGED OthersCast

\* RelationOps.is (line 901): the check of a type test.
RelationOpsIs ==
    /\ cast.phase = "ready"
    /\ cast.msg = "type test"
    /\ cast' = [cast EXCEPT !.phase = "done",
                 !.result = checkTypeCast(cast.base, cast.info, cast.fromType, cast.toType)]
    /\ UNCHANGED OthersCast

InitCast == cast \in CastInputs /\ IdleExcept("cast")

NextCast ==
    \/ DesignatorHandleTypeCast
    \/ RelationOpsIs

SpecCast == InitCast /\ [][NextCast]_vars

\* The records r + its bases, as a set: the reflexive base chain of r.
RECURSIVE BaseChain(_, _)
BaseChain(base, r) == IF r = 0 THEN {} ELSE {r} \cup BaseChain(base, base[r])

\* B extends A, directly or transitively.
Extends(base, b, a) == b # 0 /\ a \in BaseChain(base, base[b])

\* The operand of the cast is a by-reference record or a pointer and the
\* target is of the same family.
CastSameFamily ==
    \/ cast.fromType.kind = "Record" /\ cast.toType.kind = "Record" /\ cast.info = "ref"
    \/ cast.fromType.kind = "Pointer" /\ cast.toType.kind = "Pointer"

\* C1: for a by-reference record A cast or tested to record B, and for a
\* pointer to A cast or tested to a pointer to B, the check accepts when A is
\* on the base chain of B (B extends A directly or transitively) and rejects
\* with InvalidCast when the base chain of the target does not contain A.
C1_CastFollowsExtension ==
    (cast.phase = "done" /\ CastSameFamily) =>
        /\ Extends(cast.base, cast.toType.id, cast.fromType.id) => cast.result = "ok"
        /\ ~Extends(cast.base, cast.toType.id, cast.fromType.id)
               => cast.result = "InvalidCast"

\* A type test of a pointer to A against a pointer to a record that extends
\* A through an intermediate record was accepted.
C1_Witness ==
    /\ cast.phase = "done" /\ cast.msg = "type test"
    /\ cast.fromType.kind = "Pointer" /\ cast.toType.kind = "Pointer"
    /\ Extends(cast.base, cast.toType.id, cast.fromType.id)
    /\ cast.base[cast.toType.id] # cast.fromType.id
    /\ cast.result = "ok"

\* C22: the preconditions of a guarded cast and of a type test are checked
\* before the extension walk, in this order: an operand that is neither a
\* pointer nor a record fails; a record operand that is not a by-reference
\* variable fails (a value variable cannot be used); a record operand needs
\* a record target and a pointer operand a pointer target, else it fails.
\* The walk decides (accepted, or not an extension) only when all hold.
C22_Preconditions ==
    cast.phase = "done" =>
        /\ cast.fromType.kind \notin {"Pointer", "Record"}
              => cast.result = "PointerOrRecordExpected"
        /\ (cast.fromType.kind = "Record" /\ cast.info # "ref")
              => cast.result = "ValueVariable"
        /\ (cast.fromType.kind = "Record" /\ cast.info = "ref"
               /\ cast.toType.kind # "Record")
              => cast.result = "RecordTypeExpected"
        /\ (cast.fromType.kind = "Pointer" /\ cast.toType.kind # "Pointer")
              => cast.result = "PointerTypeExpected"
        /\ cast.result \in {"ok", "InvalidCast"} => CastSameFamily

\* A record held in a value variable was cast to a record that extends its
\* type: the walk would have accepted, the check refused before it.
C22_Witness ==
    /\ cast.phase = "done" /\ cast.msg = "type cast"
    /\ cast.fromType.kind = "Record" /\ cast.toType.kind = "Record"
    /\ cast.info = "value"
    /\ Extends(cast.base, cast.toType.id, cast.fromType.id)
    /\ cast.result = "ValueVariable"

\* C33: a guarded cast or a type test whose target type is the static type
\* of the operand itself (record A to A, pointer to A to pointer to A) is
\* rejected as not an extension: the walk starts at the base of the target
\* and so never meets the target.
C33_IdenticalRejected ==
    (cast.phase = "done" /\ CastSameFamily
        /\ cast.toType.id = cast.fromType.id) => cast.result = "InvalidCast"

\* A pointer to a record that has a base was cast to its own type and
\* refused.
C33_Witness ==
    /\ cast.phase = "done" /\ cast.msg = "type cast"
    /\ cast.fromType.kind = "Pointer" /\ cast.toType = cast.fromType
    /\ cast.base[cast.toType.id] # 0
    /\ cast.result = "InvalidCast"

(***************************************************************************)
(* For: the counted loop FOR v := init TO limit [BY step] DO ... END.      *)
(*                                                                         *)
(* Code text is a sequence of tokens.  out is what reached the code        *)
(* generator of the parent context, toExpr what the For context's own      *)
(* simple generator holds; by is <<>> for undefined, else <<value>>.       *)
(***************************************************************************)
OthersFor == <<cast, desig, fwd, unit, rec, arr, caseStmt, expr, constDecl, expo, typeDecl, chain, imp, relExpr, setLit, ctrl, names, promo, heading>>

ForStart == [phase |-> "ident", var |-> "", initExprParsed |-> FALSE,
             toParsed |-> FALSE, by_parsed |-> FALSE, by |-> <<>>,
             out |-> <<>>, toExpr |-> <<>>, nexprs |-> 0, error |-> "none"]

\* The symbols the control variable's name may resolve to (getSymbol).
ForSymbols == {"INTEGER variable", "REAL variable", "constant", "undeclared"}

\* The expressions an Expression context may deliver as the n-th one: a type,
\* an optional constant value and the code text (the literal for a constant).
ForExpressions(n) ==
    {[type |-> t, const |-> c,
      code |-> IF c = <<>> THEN "e" \o ToString(n) ELSE ToString(c[1])] :
        t \in {"INTEGER", "REAL"},
        c \in {<<>>} \cup {<<v>> : v \in (-MaxStep)..MaxStep}}

ForFail(msg) == forLoop' = [forLoop EXCEPT !.phase = "error", !.error = msg]

\* For.handleIdent with _handleInitCode.
ForHandleIdent(sym) ==
    /\ forLoop.phase = "ident"
    /\ IF sym = "undeclared" THEN ForFail("UndeclaredIdentifier")
       ELSE IF sym = "constant" THEN ForFail("NotAVariable")
       ELSE IF sym # "INTEGER variable" THEN ForFail("ControlVariableNotInteger")
       ELSE forLoop' = [forLoop EXCEPT !.phase = "exprs", !.var = "i",
                                       !.out = @ \o <<"for (", "i", " = ">>]
    /\ UNCHANGED OthersFor

\* A For context that never turns its output away from the parent.
ForCodeGeneratorParent(f) == "parent"

\* For.codeGenerator: where text written through the For context goes.
ForCodeGenerator(f) ==
    IF f.initExprParsed /\ ~f.toParsed THEN "toExpr"
    ELSE IF f.toParsed /\ ~f.by_parsed THEN "null"
    ELSE "parent"

\* gen.write(text) on the generator For.codeGenerator selects.
ForWrite(f, text) ==
    CASE ForCodeGenerator(f) = "toExpr" -> [f EXCEPT !.toExpr = @ \o text]
      [] ForCodeGenerator(f) = "null" -> f
      [] OTHER -> [f EXCEPT !.out = @ \o text]

\* For.handleExpression with _handleInitExpression, on the state f.
ForHandleExpression(f, e) ==
    IF ~f.initExprParsed
    THEN IF e.type # "INTEGER"
         THEN [f EXCEPT !.phase = "error", !.error = "InitNotInteger"]
         ELSE [f EXCEPT !.initExprParsed = TRUE]
    ELSE IF ~f.toParsed
    THEN IF e.type # "INTEGER"
         THEN [f EXCEPT !.phase = "error", !.error = "ToNotInteger"]
         ELSE [f EXCEPT !.toParsed = TRUE]
    ELSE IF e.type # "INTEGER"
         THEN [f EXCEPT !.phase = "error", !.error = "ByNotInteger"]
         ELSE IF e.const = <<>>
         THEN [f EXCEPT !.phase = "error", !.error = "ConstantExpressionExpected"]
         ELSE [f EXCEPT !.by = e.const]

\* Expression.endParse under a For context: the expression's code is written
\* to the parent's (the For context's) code generator, then handed over.
ForExpressionEndParse(e) ==
    /\ forLoop.phase = "exprs"
    /\ forLoop.nexprs < 3
    /\ e \in ForExpressions(forLoop.nexprs + 1)
    /\ forLoop' = ForHandleExpression(
                      [ForWrite(forLoop, <<e.code>>) EXCEPT !.nexprs = @ + 1], e)
    /\ UNCHANGED OthersFor

\* A relation that does not look at the sign of the step.
ForRelationNonDecreasing(f) == " <= "

\* The relation and the step of the loop header (lines 1559-1564).
ForRelation(f) == IF f.by # <<>> /\ f.by[1] < 0 THEN " >= " ELSE " <= "

ForStep(f) ==
    IF f.by = <<>> THEN <<"++" \o f.var>>
    ELSE IF f.by[1] < 0 THEN <<f.var, " -= ", ToString(-f.by[1])>>
    ELSE <<f.var, " += ", ToString(f.by[1])>>

\* For.handleBegin (emitForBegin): the rest of the loop header.
ForHandleBegin ==
    /\ forLoop.phase = "exprs"
    /\ forLoop.toParsed
    /\ LET f == [forLoop EXCEPT !.by_parsed = TRUE]
           s == <<"; ", f.var, ForRelation(f)>> \o f.toExpr \o <<"; ">>
                    \o ForStep(f) \o <<")">>
       IN forLoop' = [ForWrite(ForWrite(f, s), <<"{">>) EXCEPT !.phase = "body"]
    /\ UNCHANGED OthersFor

\* For.endParse: the block is closed.
ForEndParse ==
    /\ forLoop.phase = "body"
    /\ forLoop' = [ForWrite(forLoop, <<"}">>) EXCEPT !.phase = "done"]
    /\ UNCHANGED OthersFor

InitFor == forLoop = ForStart /\ IdleExcept("for")

NextFor ==
    \/ \E sym \in ForSymbols : ForHandleIdent(sym)
    \/ \E n \in 1..3 : \E e \in ForExpressions(n) : ForExpressionEndParse(e)
    \/ ForHandleBegin
    \/ ForEndParse

SpecFor == InitFor /\ [][NextFor]_vars

\* C2: a counted loop whose BY step is the constant 0 is rejected with
\* ZeroStepInCountedLoop, and no text of the loop has reached the code
\* generator when it is rejected.
C2_ZeroStepRejected ==
    (forLoop.phase # "idle" /\ forLoop.nexprs = 3 /\ forLoop.by = <<0>>) =>
        (forLoop.phase = "error" /\ forLoop.error = "ZeroStepInCountedLoop"
            /\ forLoop.out = <<>>)

\* The text a step appended to the output.
ForWritten == SubSeq(forLoop'.out, Len(forLoop.out) + 1, Len(forLoop'.out))

\* C15: in the loop header a negative constant step s selects the
\* comparison var >= limit and decrements the control variable by |s|; a
\* non-negative constant step selects var <= limit and increments by s; with
\* no step the comparison is var <= limit and the increment is 1.
C15_LoopHeader ==
    [][ForHandleBegin =>
         LET h == ForWritten
             n == Len(h)
             limit == forLoop.toExpr
             v == forLoop.var
             s == forLoop.by
             head(rel) == <<"; ", v, rel>> \o limit \o <<"; ">>
         IN /\ h[n] = "{" /\ h[n - 1] = ")"
            /\ (s # <<>> /\ s[1] < 0) =>
                 SubSeq(h, 1, n - 2)
                    = head(" >= ") \o <<v, " -= ", ToString(0 - s[1])>>
            /\ (s # <<>> /\ s[1] >= 0) =>
                 SubSeq(h, 1, n - 2)
                    = head(" <= ") \o <<v, " += ", ToString(s[1])>>
            /\ s = <<>> =>
                 SubSeq(h, 1, n - 2) = head(" <= ") \o <<"++" \o v>>
      ]_vars

\* The header of a loop that counts down by MaxStep was written.
C15_Witness ==
    /\ forLoop.phase = "body"
    /\ forLoop.by = <<0 - MaxStep>>
    /\ \E k \in 1..Len(forLoop.out) : forLoop.out[k] = " >= "
    /\ \E k \in 1..Len(forLoop.out) : forLoop.out[k] = " -= "

\* C35: the expressions delivered to the FOR context are classified by
\* their order of arrival: the first is the initial value, the second the
\* limit, any later one the step, and each must be INTEGER.  The code of
\* the initial value goes straight to the output; the code of the limit is
\* kept in a buffer of the context and reaches the output only in the loop
\* header, right after the comparison operator; the code of the step
\* expression never reaches the output.
C35_ForPhases ==
    [][/\ \A n \in 1..3 : \A e \in ForExpressions(n) :
            ForExpressionEndParse(e) =>
              LET k == forLoop.nexprs + 1
                  refused(msg) == IF e.type # "INTEGER"
                                  THEN forLoop'.error = msg
                                  ELSE forLoop'.error # msg
              IN /\ k = 1 => /\ ForWritten = <<e.code>>
                             /\ forLoop'.toExpr = forLoop.toExpr
                             /\ refused("InitNotInteger")
                 /\ k = 2 => /\ forLoop'.out = forLoop.out
                             /\ forLoop'.toExpr = forLoop.toExpr \o <<e.code>>
                             /\ refused("ToNotInteger")
                 /\ k > 2 => /\ forLoop'.out = forLoop.out
                             /\ forLoop'.toExpr = forLoop.toExpr
                             /\ refused("ByNotInteger")
       /\ ForHandleBegin =>
            /\ Len(forLoop.toExpr) = 1
            /\ forLoop.out = <<"for (", "i", " = ", "e1">>
                 \/ \E c \in (-MaxStep)..MaxStep :
                       forLoop.out = <<"for (", "i", " = ", ToString(c)>>
            /\ ForWritten[3] \in {" <= ", " >= "}
            /\ ForWritten[4] = forLoop.toExpr[1]
            /\ ForWritten[5] = "; "
       /\ ForEndParse => ForWritten = <<"}">>
      ]_vars

\* FOR i := e1 TO e2 BY 1: the header holds e1 and e2 and the step by the
\* value 1; the third expression was the constant 1.
C35_Witness ==
    /\ forLoop.phase = "body" /\ forLoop.nexprs = 3
    /\ forLoop.out = <<"for (", "i", " = ", "e1", "; ", "i", " <= ", "e2",
                       "; ", "i", " += ", "1", ")", "{">>

(***************************************************************************)
(* Designator: a qualified identifier followed by field, index and         *)
(* dereference selectors.  Code text is a sequence of tokens; <<>> stands  *)
(* for the empty text and for undefined (both are falsy in the source).    *)
(***************************************************************************)
OthersDesig == <<cast, forLoop, fwd, unit, rec, arr, caseStmt, expr, constDecl, expo, typeDecl, chain, imp, relExpr, setLit, ctrl, names, promo, heading>>

TInt == [kind |-> "Basic", name |-> "INTEGER"]
TCh == [kind |-> "Basic", name |-> "CHAR"]
TReal == [kind |-> "Basic", name |-> "REAL"]
TByte == [kind |-> "Basic", name |-> "BYTE"]
TSet == [kind |-> "Basic", name |-> "SET"]
TBool == [kind |-> "Basic", name |-> "BOOLEAN"]
StaticArray(n, e) == [kind |-> "StaticArray", length |-> n, elem |-> e]
OpenArray(e) == [kind |-> "OpenArray", elem |-> e]
StringType(n) == [kind |-> "String", length |-> n]
TRec == [kind |-> "Record", name |-> "R",
         fields |-> [f \in {"x", "a", "c"} |->
                        CASE f = "x" -> TInt
                          [] f = "a" -> StaticArray(MaxLen, TInt)
                          [] OTHER -> TCh]]
TPtr == [kind |-> "Pointer", base |-> TRec]

DesigElemTypes == {TInt, TCh, TRec, TPtr}
DesigArrays1 == {StaticArray(n, e) : n \in 1..MaxLen, e \in DesigElemTypes}
                    \cup {OpenArray(e) : e \in DesigElemTypes}
DesigArrays2 == {StaticArray(n, StaticArray(MaxLen, TInt)) : n \in 1..MaxLen}
                    \cup {OpenArray(OpenArray(TCh))}
DesigVarTypes == DesigElemTypes \cup DesigArrays1 \cup DesigArrays2

\* Type.makeVariable(type, readOnly) and Type.makeVariableRef(type, readOnly).
makeVariable(ro) == [kind |-> "Variable", readOnly |-> ro, isRef |-> FALSE]
makeVariableRef(ro) == [kind |-> "Variable", readOnly |-> ro, isRef |-> TRUE]
ConstInfo == [kind |-> "Const", readOnly |-> TRUE, isRef |-> FALSE]

\* The symbols a designator may start from: local variables, read-only
\* variables (value parameters of structured type, imported variables), VAR
\* parameters, and constants (strings and integers).
DesigSymbols ==
    {[type |-> t, info |-> i] :
        t \in DesigVarTypes,
        i \in {makeVariable(FALSE), makeVariable(TRUE), makeVariableRef(FALSE)}}
    \cup {[type |-> StringType(n), info |-> ConstInfo] : n \in 0..MaxLen}
    \cup {[type |-> TInt, info |-> ConstInfo]}

\* Index expressions: type, optional constant, code.
DesigExpressions ==
    {[type |-> t, const |-> c, code |-> IF c = <<>> THEN "i" ELSE ToString(c[1])] :
        t \in {TInt, TReal},
        c \in {<<>>} \cup {<<v>> : v \in (-1)..(MaxLen + 1)}}

DesigStart == [phase |-> "start", currentType |-> TInt, info |-> ConstInfo,
               scope |-> "none", code |-> <<>>, lval |-> <<>>,
               indexExpression |-> [type |-> TInt, const |-> <<>>, code |-> ""],
               derefCode |-> <<>>, propCode |-> <<>>, steps |-> <<>>,
               refCode |-> <<>>, error |-> "none"]

DesigFail(d, msg) == [d EXCEPT !.error = msg]

\* Designator.handleQIdent for a variable or constant symbol.
DesignatorHandleQIdent(sym) ==
    /\ desig.phase = "start"
    /\ desig' = [desig EXCEPT !.phase = "chain", !.scope = "found",
                              !.currentType = sym.type, !.info = sym.info,
                              !.code = @ \o <<"v">>]
    /\ UNCHANGED OthersDesig

\* Designator.__handleDeref: the type after ^, or the error.
handleDeref(d) ==
    IF d.currentType.kind # "Pointer" THEN DesigFail(d, "PointerExpected")
    ELSE [d EXCEPT !.currentType = d.currentType.base]

\* Type.isScalar of js/Types.js: basic types and pointers are scalar, arrays,
\* strings and records are not.
isScalar(t) == t.kind \in {"Basic", "Pointer"}

\* Type.isInt of js/Types.js.
isInt(t) == t \in {TInt, TByte}

\* Designator._advance.
advance(d, type, info, code, lval, replace) ==
    [d EXCEPT !.currentType = type, !.info = info,
              !.code = (IF replace THEN <<>> ELSE d.code) \o code,
              !.lval = lval]

\* A field selector that keeps the read-only flag of a pointer variable
\* for the field it reaches through the pointer.
DesignatorHandleIdentKeepsReadOnly(id) ==
    /\ desig.phase = "chain" /\ desig.error = "none"
    /\ LET t == desig.currentType
           ro0 == desig.info.kind = "Variable" /\ desig.info.readOnly
           d1 == IF t.kind = "Pointer" THEN handleDeref(desig) ELSE desig
           rt == IF t.kind = "Pointer" THEN t.base ELSE t
       IN desig' =
            IF d1.error # "none" THEN d1
            ELSE IF rt.kind # "Record" \/ id \notin DOMAIN rt.fields
            THEN DesigFail(d1, "UnknownField")
            ELSE [advance(d1, rt.fields[id], makeVariable(ro0),
                          desig.code \o <<".", id>>, <<>>, TRUE)
                    EXCEPT !.derefCode = desig.code, !.propCode = <<id>>,
                           !.scope = "none", !.steps = @ \o <<"field">>]
    /\ UNCHANGED OthersDesig

\* Designator.handleIdent: the field selector .id
DesignatorHandleIdent(id) ==
    /\ desig.phase = "chain" /\ desig.error = "none"
    /\ LET t == desig.currentType
           ro0 == desig.info.kind = "Variable" /\ desig.info.readOnly
           d1 == IF t.kind = "Pointer" THEN handleDeref(desig) ELSE desig
           isReadOnly == IF t.kind = "Pointer" THEN FALSE ELSE ro0
           rt == IF t.kind = "Pointer" THEN t.base ELSE t
       IN desig' =
            IF d1.error # "none" THEN d1
            ELSE IF rt.kind # "Record" \/ id \notin DOMAIN rt.fields
            THEN DesigFail(d1, "UnknownField")
            ELSE [advance(d1, rt.fields[id], makeVariable(isReadOnly),
                          desig.code \o <<".", id>>, <<>>, TRUE)
                    EXCEPT !.derefCode = desig.code, !.propCode = <<id>>,
                           !.scope = "none", !.steps = @ \o <<"field">>]
    /\ UNCHANGED OthersDesig

\* Designator.handleExpression: the index expression is kept.
DesignatorHandleExpression(e) ==
    /\ desig.phase = "index" /\ desig.error = "none"
    /\ desig' = [desig EXCEPT !.phase = "indexed", !.indexExpression = e]
    /\ UNCHANGED OthersDesig

\* Designator._indexSequence: the index record, or the error.
indexSequence(d, indexCode) ==
    LET type == d.currentType
        isArray == type.kind \in {"StaticArray", "OpenArray"}
    IN IF ~isArray /\ type.kind # "String"
       THEN [error |-> "ArrayOrStringExpected"]
       ELSE LET length == IF isArray
                          THEN IF type.kind = "StaticArray" THEN <<type.length>>
                               ELSE <<>>
                          ELSE <<type.length>>
                indexType == IF isArray THEN type.elem ELSE TCh
                code == d.derefCode \o <<"[", indexCode, "]">>
            IN IF ~isArray /\ length = <<0>>
               THEN [error |-> "CannotIndexEmptyString"]
               ELSE [error |-> "none", length |-> length, type |-> indexType,
                     info |-> makeVariable(d.info.kind = "Const" \/ d.info.readOnly),
                     code |-> IF indexType = TCh
                              THEN d.derefCode \o <<".charCodeAt(", indexCode, ")">>
                              ELSE code,
                     lval |-> IF indexType = TCh THEN code ELSE <<>>,
                     asProperty |-> <<indexCode>>]

\* The bound test of _checkIndexValue that forgets the last element (>).
checkIndexValueOffByOne(d, index, pValue, negativeRejected) ==
    IF pValue = <<>> THEN "none"
    ELSE IF pValue[1] < 0 /\ negativeRejected THEN "NegativeIndex"
    ELSE IF d.currentType.kind \in {"StaticArray", "String"}
            /\ pValue[1] > index.length[1]
    THEN "IndexOutOfBounds"
    ELSE "none"

\* Designator._checkIndexValue: "none" when it returns, else the error.
\* Code.checkIndex (js/Code.js) is given a negative constant only when
\* negativeRejected tells what it does with it.
checkIndexValue(d, index, pValue, negativeRejected) ==
    IF pValue = <<>> THEN "none"
    ELSE IF pValue[1] < 0 /\ negativeRejected THEN "NegativeIndex"
    ELSE IF d.currentType.kind \in {"StaticArray", "String"}
            /\ pValue[1] >= index.length[1]
    THEN "IndexOutOfBounds"
    ELSE "none"

\* Designator.__handleIndexExpression with _checkIndexType: the index record,
\* or the error.
handleIndexExpression(d, negativeRejected) ==
    LET e == d.indexExpression
    IN IF ~isInt(e.type) THEN [error |-> "IntExpected"]
       ELSE LET index == indexSequence(d, e.code)
            IN IF index.error # "none" THEN index
               ELSE LET err == checkIndexValue(d, index, e.const, negativeRejected)
                    IN IF err # "none" THEN [error |-> err] ELSE index

\* Designator.handleLiteral for "[", ",", "]" and "^".
DesignatorHandleLiteral(s, negativeRejected) ==
    /\ desig.error = "none"
    /\ \/ s \in {"[", "^"} /\ desig.phase = "chain"
       \/ s \in {",", "]"} /\ desig.phase = "indexed"
    /\ LET index == handleIndexExpression(desig, negativeRejected)
           d1 == IF s \in {"]", ","}
                 THEN IF index.error # "none" THEN DesigFail(desig, index.error)
                      ELSE [advance(desig, index.type, index.info,
                                    desig.code \o index.code, index.lval, FALSE)
                              EXCEPT !.propCode = index.asProperty,
                                     !.steps = @ \o <<"index">>,
                                     !.phase = "chain"]
                 ELSE desig
           d2 == IF d1.error # "none" THEN d1
                 ELSE IF s \in {"[", ","}
                 THEN [d1 EXCEPT !.derefCode = d1.code, !.code = <<>>,
                                 !.phase = "index"]
                 ELSE IF s = "^"
                 THEN LET d3 == handleDeref(d1)
                      IN IF d3.error # "none" THEN d3
                         ELSE [d3 EXCEPT !.info = makeVariableRef(FALSE),
                                         !.steps = @ \o <<"deref">>]
                 ELSE d1
       IN desig' = d2
    /\ UNCHANGED OthersDesig

\* rtl.makeRef(derefCode, propCode).
rtlMakeRef(derefCode, propCode) ==
    <<"RTL$.makeRef(">> \o derefCode \o <<", ">> \o propCode \o <<")">>

\* The inline cell of line 458.
inlineCell(code) ==
    <<"{set: function($v){">> \o code \o <<" = $v;}, get: function(){return ">>
        \o code \o <<";}}">>

\* A reference producer that hands out the plain code of a directly named
\* scalar variable.
makeRefCodeNoInlineCell(d, code) ==
    IF ~isScalar(d.currentType) \/ d.info.isRef THEN code
    ELSE IF d.derefCode # <<>> THEN rtlMakeRef(d.derefCode, d.propCode)
    ELSE code

\* Designator.__makeRefCode.
makeRefCode(d, code) ==
    IF ~isScalar(d.currentType) \/ d.info.isRef THEN code
    ELSE IF d.derefCode # <<>> THEN rtlMakeRef(d.derefCode, d.propCode)
    ELSE inlineCell(code)

\* Designator.endParse; refCode holds what the designator's reference
\* producer gives for the designator's own code.  Only a variable is ever
\* passed by reference, so the producer of a constant is not called.
DesignatorEndParse ==
    /\ desig.phase = "chain" /\ desig.error = "none"
    /\ desig' = [desig EXCEPT !.phase = "done",
                              !.lval = IF desig.lval # <<>> THEN desig.lval
                                       ELSE desig.code,
                              !.refCode = IF desig.info.kind = "Variable"
                                          THEN makeRefCode(desig, desig.code)
                                          ELSE <<>>]
    /\ UNCHANGED OthersDesig

InitDesig == desig = DesigStart /\ IdleExcept("desig")

NextDesig ==
    \/ \E sym \in DesigSymbols : DesignatorHandleQIdent(sym)
    \/ \E id \in {"x", "a", "c", "z"} : DesignatorHandleIdent(id)
    \/ \E e \in DesigExpressions : DesignatorHandleExpression(e)
    \/ \E s \in {"[", ",", "]", "^"} : \E neg \in BOOLEAN :
           DesignatorHandleLiteral(s, neg)
    \/ DesignatorEndParse

SpecDesig == InitDesig /\ [][NextDesig]_vars

\* An index selector was closed ("]" or ",") in this step: the index
\* expression of the state before was checked against the type before.
IndexStepTaken ==
    /\ desig.phase = "indexed" /\ desig.error = "none"
    /\ desig' # desig

IndexIsConstantInt ==
    isInt(desig.indexExpression.type) /\ desig.indexExpression.const # <<>>

\* The claim as stated, empty strings included: a constant index v >= N of
\* a static array or string of length N fails with IndexOutOfBounds; without
\* a constant, and for an open array, the bound check never rejects.
C3_IndexBoundAsClaimed ==
    [][IndexStepTaken =>
        /\ (/\ desig.currentType.kind \in {"StaticArray", "String"}
            /\ IndexIsConstantInt
            /\ desig.indexExpression.const[1] >= desig.currentType.length)
               => desig'.error = "IndexOutOfBounds"
        /\ desig.indexExpression.const = <<>> => desig'.error # "IndexOutOfBounds"
        /\ desig.currentType.kind = "OpenArray" => desig'.error # "IndexOutOfBounds"
      ]_vars

\* C3: indexing a static array of length N, or a string literal of length
\* N >= 1, with an integer constant v >= N fails with IndexOutOfBounds (an
\* empty string fails earlier, with 'cannot index empty string'); an index
\* expression without a constant value is never rejected by the bound check,
\* for any N, and no constant index of an open array is.
C3_IndexBound ==
    [][IndexStepTaken =>
        /\ (/\ desig.currentType.kind \in {"StaticArray", "String"}
            /\ IndexIsConstantInt
            /\ desig.indexExpression.const[1] >= desig.currentType.length
            /\ ~(desig.currentType.kind = "String" /\ desig.currentType.length = 0))
               => desig'.error = "IndexOutOfBounds"
        /\ (desig.currentType.kind = "String" /\ desig.currentType.length = 0
            /\ isInt(desig.indexExpression.type))
               => desig'.error = "CannotIndexEmptyString"
        /\ desig.indexExpression.const = <<>> => desig'.error # "IndexOutOfBounds"
        /\ desig.currentType.kind = "OpenArray" => desig'.error # "IndexOutOfBounds"
      ]_vars

\* A static array of length N indexed by the constant N was rejected.
C3_Witness ==
    /\ desig.phase = "indexed" /\ desig.error = "IndexOutOfBounds"
    /\ desig.currentType.kind = "StaticArray"
    /\ desig.indexExpression.const = <<desig.currentType.length>>

\* The selectors that reach the designated value through a dynamic path.
ReachedThroughSelector ==
    \E k \in 1..Len(desig.steps) : desig.steps[k] \in {"field", "index"}

\* The claim as stated: the reference code is a cell only for a scalar
\* reached through an array element or a field; a directly named scalar
\* variable that is not a reference gets the plain access code, and so do
\* non-scalars and by-reference variables.
C8_RefCodeAsClaimed ==
    (desig.phase = "done" /\ desig.info.kind = "Variable") =>
        IF isScalar(desig.currentType) /\ ~desig.info.isRef /\ ReachedThroughSelector
        THEN desig.refCode # desig.code
        ELSE desig.refCode = desig.code

\* C8: the reference code is the plain access code for non-scalar values and
\* for by-reference variables; for a scalar that is not a reference it is the
\* run-time cell rtl.makeRef(container, property) when the value was reached
\* through an array element or a field, and an inline get/set cell built
\* around the access code when the variable is named directly.
C8_RefCode ==
    (desig.phase = "done" /\ desig.info.kind = "Variable") =>
        IF ~isScalar(desig.currentType) \/ desig.info.isRef
        THEN desig.refCode = desig.code
        ELSE IF ReachedThroughSelector
        THEN /\ desig.refCode = rtlMakeRef(desig.derefCode, desig.propCode)
             /\ desig.derefCode # <<>>
        ELSE /\ desig.refCode = inlineCell(desig.code)
             /\ desig.refCode # desig.code

\* A directly named scalar local variable got the inline cell.
C8_Witness ==
    /\ desig.phase = "done" /\ desig.steps = <<>>
    /\ isScalar(desig.currentType) /\ ~desig.info.isRef
    /\ desig.info.kind = "Variable"
    /\ desig.refCode = inlineCell(desig.code)

(***************************************************************************)
(* TypeSection: the declarations of one TYPE section in the current scope, *)
(* with the forward references POINTER TO makes to names declared later.   *)
(*                                                                         *)
(* decl[n] is what the name n denotes in the current scope: "none",        *)
(* "const", or a type: "lazy" (declared, its LazyTypeId not yet defined),  *)
(* "record", or "other" (any type that is not a record).  outer holds the  *)
(* record type names visible in the enclosing scopes.  ptrs are the        *)
(* pointer types built so far, each with the name of its base and whether  *)
(* it holds a ForwardTypeId.  cur is the name of the type declaration      *)
(* being parsed, 0 for none.                                               *)
(***************************************************************************)
OthersFwd == <<cast, forLoop, desig, unit, rec, arr, caseStmt, expr, constDecl, expo, typeDecl, chain, imp, relExpr, setLit, ctrl, names, promo, heading>>

Names == 1..MaxNames

FwdStarts ==
    [phase : {"open"}, decl : [Names -> {"none", "const"}], outer : SUBSET {1},
     unresolved : {<<>>}, ptrs : {{}}, cur : {0}, curSet : {FALSE},
     error : {"none"}, errNames : {<<>>}]

SeqToSet(q) == {q[k] : k \in 1..Len(q)}

\* Scope.addUnresolved of js/Scope.js: the marker of id is recorded once.
addUnresolved(unresolved, id) ==
    IF id \in SeqToSet(unresolved) THEN unresolved ELSE Append(unresolved, id)

\* Scope.resolve of js/Scope.js: the marker of id, if any, is removed.
resolve(unresolved, id) ==
    SelectSeq(unresolved, LAMBDA x : x # id)

\* Context.findSymbol: the scopes are searched innermost first.
findSymbol(f, id) ==
    IF f.decl[id] # "none" THEN f.decl[id]
    ELSE IF id \in f.outer THEN "record"
    ELSE "none"

\* TypeDeclaration.handleIdentdef: the name is declared with a LazyTypeId.
TypeDeclarationHandleIdentdef(n) ==
    /\ fwd.phase = "open" /\ fwd.error = "none"
    /\ fwd.cur = 0 \/ fwd.curSet
    /\ fwd' = IF fwd.decl[n] # "none"
              THEN [fwd EXCEPT !.error = "DuplicateSymbol"]
              ELSE [fwd EXCEPT !.decl[n] = "lazy", !.cur = n, !.curSet = FALSE]
    /\ UNCHANGED OthersFwd

\* TypeDeclaration.setType on the state f: the LazyTypeId is defined and
\* the name is resolved in the current scope.
TypeDeclarationSetType(f, kind) ==
    [f EXCEPT !.decl[f.cur] = kind, !.curSet = TRUE,
              !.unresolved = resolve(f.unresolved, f.cur)]

\* The type body of the current declaration is a record (RecordDecl.init
\* calls parent.setType at once) or a type that is no record and no pointer.
TypeBodySetType(kind) ==
    /\ fwd.phase = "open" /\ fwd.error = "none"
    /\ fwd.cur # 0 /\ ~fwd.curSet
    /\ fwd' = TypeDeclarationSetType(fwd, kind)
    /\ UNCHANGED OthersFwd

\* TypeSection.handleMessage for a ForwardTypeMsg: the marker is registered
\* and a ForwardTypeId returned.
TypeSectionHandleMessage(f, id) ==
    [f EXCEPT !.unresolved = addUnresolved(f.unresolved, id)]

\* PointerDecl.handleQIdent with __setTypeId for the unqualified name id.
\* The pointer is the body of the current declaration when its type is not
\* set yet, else the type of a field inside the record being declared.
PointerDeclHandleQIdent(id) ==
    /\ fwd.phase = "open" /\ fwd.error = "none"
    /\ fwd.cur # 0
    /\ LET s == findSymbol(fwd, id)
           f1 == IF s = "none" THEN TypeSectionHandleMessage(fwd, id) ELSE fwd
           f2 == [f1 EXCEPT !.ptrs = @ \cup {[base |-> id, forward |-> s = "none"]}]
       IN fwd' =
            IF s = "const" THEN [fwd EXCEPT !.error = "TypeNameExpected"]
            ELSE IF s = "lazy" THEN [fwd EXCEPT !.error = "TypeError"]
            ELSE IF s = "other" THEN [fwd EXCEPT !.error = "InvalidPointerBase"]
            ELSE IF ~fwd.curSet THEN TypeDeclarationSetType(f2, "other")
            ELSE f2
    /\ UNCHANGED OthersFwd

\* A section end that closes without looking at the pending markers.
TypeSectionEndParseNoCheck ==
    /\ fwd.phase = "open" /\ fwd.error = "none"
    /\ fwd.cur = 0 \/ fwd.curSet
    /\ fwd' = [fwd EXCEPT !.phase = "closed"]
    /\ UNCHANGED OthersFwd

\* TypeSection.endParse.
TypeSectionEndParse ==
    /\ fwd.phase = "open" /\ fwd.error = "none"
    /\ fwd.cur = 0 \/ fwd.curSet
    /\ fwd' = IF Len(fwd.unresolved) # 0
              THEN [fwd EXCEPT !.error = "UnresolvedForwardType",
                               !.errNames = fwd.unresolved]
              ELSE [fwd EXCEPT !.phase = "closed"]
    /\ UNCHANGED OthersFwd

InitFwd == fwd \in FwdStarts /\ IdleExcept("fwd")

NextFwd ==
    \/ \E n \in Names : TypeDeclarationHandleIdentdef(n)
    \/ \E kind \in {"record", "other"} : TypeBodySetType(kind)
    \/ \E n \in Names : PointerDeclHandleQIdent(n)
    \/ TypeSectionEndParse

SpecFwd == InitFwd /\ [][NextFwd]_vars

\* C4: a POINTER base name that no scope declares registers a pending
\* marker; defining the type declared under that name in the same scope
\* removes the marker; closing the section succeeds iff no marker is pending
\* and else fails with UnresolvedForwardType naming the pending names,
\* whatever else the scope declares.
C4_ForwardMarkers ==
    [][/\ \A n \in Names :
            (PointerDeclHandleQIdent(n) /\ findSymbol(fwd, n) = "none")
                => n \in SeqToSet(fwd'.unresolved)
       /\ (fwd.cur # 0 /\ ~fwd.curSet /\ fwd'.curSet /\ fwd'.cur = fwd.cur)
                => fwd.cur \notin SeqToSet(fwd'.unresolved)
       /\ TypeSectionEndParse =>
            /\ fwd'.phase = "closed" <=> fwd.unresolved = <<>>
            /\ fwd.unresolved # <<>> =>
                 /\ fwd'.error = "UnresolvedForwardType"
                 /\ fwd'.errNames = fwd.unresolved
      ]_vars

\* A section closed without error although a pointer referred forward to a
\* record declared later in the section, in a scope that also holds constants.
C4_Witness ==
    /\ fwd.phase = "closed"
    /\ \E p \in fwd.ptrs : p.forward /\ fwd.decl[p.base] = "record"
    /\ \E n \in Names : fwd.decl[n] = "const"

\* The designator so far is a constant or a read-only variable.
DesigReadOnly ==
    \/ desig.info.kind = "Const"
    \/ desig.info.kind = "Variable" /\ desig.info.readOnly

\* C38: along a designator an element selected by an index is read-only
\* exactly when the designator that is indexed is a constant or a
\* read-only variable; a field selected directly from a read-only record
\* variable is read-only; a field or a value reached through a pointer,
\* dereferenced by ^ or implicitly by the field selector, is never
\* read-only on account of the pointer variable being read-only.
C38_ReadOnlyPropagation ==
    [][/\ \A s \in {"]", ","} : \A neg \in BOOLEAN :
            (DesignatorHandleLiteral(s, neg) /\ desig'.error = "none") =>
               /\ desig'.info.kind = "Variable"
               /\ desig'.info.readOnly <=> DesigReadOnly
       /\ \A id \in {"x", "a", "c", "z"} :
            (DesignatorHandleIdent(id) /\ desig'.error = "none") =>
               /\ desig.currentType.kind = "Record" =>
                     (desig'.info.readOnly <=>
                        (desig.info.kind = "Variable" /\ desig.info.readOnly))
               /\ desig.currentType.kind = "Pointer" => ~desig'.info.readOnly
       /\ \A neg \in BOOLEAN :
            (DesignatorHandleLiteral("^", neg) /\ desig'.error = "none") =>
               ~desig'.info.readOnly
      ]_vars

\* r.a[i] for a read-only record variable r: the field and its element are
\* read-only.
C38_Witness ==
    /\ desig.phase = "chain" /\ desig.error = "none"
    /\ desig.steps = <<"field", "index">>
    /\ desig.currentType = TInt
    /\ desig.info = makeVariable(TRUE)

(***************************************************************************)
(* The translation unit: Context with its scope stack, ModuleDeclaration   *)
(* and the ProcDecl contexts of the procedures nested in the module.       *)
(*                                                                         *)
(* Scopes are numbered in the order they are created.  scopes is           *)
(* Context.__scopes, closed the scopes in the order close() was called on  *)
(* them, symbols[s] the names declared in scope s, procs the stack of     *)
(* the open ProcDecl contexts (innermost last) and out the text written    *)
(* to the code generator.                                                  *)
(***************************************************************************)
OthersUnit == <<cast, forLoop, desig, fwd, rec, arr, caseStmt, expr, constDecl, expo, typeDecl, chain, imp, relExpr, setLit, ctrl, names, promo, heading>>

ScopeIds == 1..(MaxProcs + 1)
ProcNames == {"P", "Q"}
ModuleNames == {"M", "N"}

UnitStart == [phase |-> "start", name |-> "", scopes |-> <<>>, nscopes |-> 0,
              closed |-> <<>>, symbols |-> [s \in ScopeIds |-> {}],
              procs |-> <<>>, out |-> <<>>, error |-> "none",
              published |-> 0, errorNames |-> <<>>]

Top(q) == q[Len(q)]
Front(q) == SubSeq(q, 1, Len(q) - 1)

\* Context.currentScope.
currentScope(u) == Top(u.scopes)

\* Context.pushScope of a newly made scope.
pushScope(u) ==
    [u EXCEPT !.nscopes = @ + 1, !.scopes = Append(@, u.nscopes + 1)]

\* A pop that takes the scope from the bottom of the stack.
popScopeBottom(u) ==
    [u EXCEPT !.scopes = Tail(@), !.closed = Append(@, Head(u.scopes))]

\* Context.popScope: the top scope is popped and closed.
popScope(u) ==
    [u EXCEPT !.scopes = Front(@), !.closed = Append(@, Top(u.scopes))]

\* A handleIdent that closes the scope and publishes the exports of the
\* module at any identifier after the first, and compares the names after.
ModuleDeclarationHandleIdentClosesFirst(id) ==
    /\ unit.error = "none"
    /\ \/ unit.phase = "start"
       \/ unit.phase = "module" /\ unit.procs = <<>>
    /\ unit' =
         IF unit.phase = "start"
         THEN [pushScope(unit) EXCEPT !.phase = "module", !.name = id]
         ELSE LET u == [unit EXCEPT !.closed = Append(@, currentScope(unit)),
                                    !.published = @ + 1,
                                    !.out = @ \o <<"epilog">>]
              IN IF id = unit.name THEN [u EXCEPT !.phase = "done"]
                 ELSE [u EXCEPT !.error = "MismatchedModuleName",
                                !.errorNames = <<unit.name, id>>]
    /\ UNCHANGED OthersUnit

\* ModuleDeclaration.handleIdent: the name after MODULE, and the name after
\* the final END (all procedure declarations have ended by then).  At the
\* closing name the scope is closed, Scope.defineExports publishes its
\* exports (published counts the calls) and the epilog is written; the
\* error of a different name carries both names.
ModuleDeclarationHandleIdent(id) ==
    /\ unit.error = "none"
    /\ \/ unit.phase = "start"
       \/ unit.phase = "module" /\ unit.procs = <<>>
    /\ unit' =
         IF unit.phase = "start"
         THEN [pushScope(unit) EXCEPT !.phase = "module", !.name = id]
         ELSE IF id = unit.name
         THEN [unit EXCEPT !.phase = "done",
                           !.closed = Append(@, currentScope(unit)),
                           !.published = @ + 1,
                           !.out = @ \o <<"epilog">>]
         ELSE [unit EXCEPT !.error = "MismatchedModuleName",
                           !.errorNames = <<unit.name, id>>]
    /\ UNCHANGED OthersUnit

\* The ProcDecl context is the innermost one and is at the given stage.
ProcAt(stage) ==
    /\ unit.phase = "module" /\ unit.error = "none"
    /\ unit.procs # <<>>
    /\ Top(unit.procs).stage = stage
    /\ ~Top(unit.procs).named

\* A procedure declaration may start here: in the module's declarations or
\* in the declarations of a procedure, before its RETURN.
ProcMayStart ==
    /\ unit.phase = "module" /\ unit.error = "none"
    /\ unit.nscopes <= MaxProcs
    /\ unit.procs # <<>> => (Top(unit.procs).stage = "body" /\ ~Top(unit.procs).named)

\* ProcDecl.init and ProcDecl.handleIdentdef: the prolog is written and the
\* procedure scope pushed.
ProcDeclHandleIdentdef(id) ==
    /\ ProcMayStart
    /\ LET p == [id |-> id, stage |-> "ident", named |-> FALSE,
                 hasResult |-> FALSE, returnParsed |-> FALSE,
                 outerScope |-> currentScope(unit)]
       IN unit' = [pushScope(unit) EXCEPT !.procs = Append(@, p),
                                          !.out = @ \o <<"\nfunction ", id, "(">>]
    /\ UNCHANGED OthersUnit

\* FormalParameters.init -> ProcDecl.setType: the procedure symbol is added
\* to the scope that encloses the declaration.
ProcDeclSetType ==
    /\ ProcAt("ident")
    /\ LET p == Top(unit.procs)
       IN unit' = IF p.id \in unit.symbols[p.outerScope]
                  THEN [unit EXCEPT !.error = "DuplicateSymbol"]
                  ELSE [unit EXCEPT !.symbols[p.outerScope] = @ \cup {p.id},
                                    !.procs[Len(unit.procs)].stage = "params"]
    /\ UNCHANGED OthersUnit

\* FormalParametersProcDecl.endParse: the type is defined with its result
\* (if any) and endParametersMsg makes ProcDecl write ")" and open the body.
FormalParametersProcDeclEndParse(hasResult) ==
    /\ ProcAt("params")
    /\ unit' = [unit EXCEPT !.procs[Len(unit.procs)].stage = "body",
                            !.procs[Len(unit.procs)].hasResult = hasResult,
                            !.out = @ \o <<")", "{">>]
    /\ UNCHANGED OthersUnit

\* A handleReturn that writes the return text and marks the procedure before
\* it looks at the types.
ProcDeclHandleReturnWritesFirst(castError) ==
    /\ ProcAt("body")
    /\ LET p == Top(unit.procs)
           u == [unit EXCEPT !.procs[Len(unit.procs)].returnParsed = TRUE,
                             !.out = @ \o <<"return ", "e", ";\n">>]
       IN unit' =
            IF ~p.hasResult THEN [u EXCEPT !.error = "ReturnWithNoResultDeclared"]
            ELSE IF castError THEN [u EXCEPT !.error = "ReturnTypeMismatch"]
            ELSE [u EXCEPT !.procs[Len(unit.procs)].stage = "returned"]
    /\ UNCHANGED OthersUnit

\* ProcDecl.handleReturn, reached from Return.handleExpression; castError is
\* what language.types.implicitCast answers for the expression's type and
\* the declared result type.
ProcDeclHandleReturn(castError) ==
    /\ ProcAt("body")
    /\ LET p == Top(unit.procs)
       IN unit' =
            IF ~p.hasResult THEN [unit EXCEPT !.error = "ReturnWithNoResultDeclared"]
            ELSE IF castError THEN [unit EXCEPT !.error = "ReturnTypeMismatch"]
            ELSE [unit EXCEPT !.procs[Len(unit.procs)].stage = "returned",
                              !.procs[Len(unit.procs)].returnParsed = TRUE,
                              !.out = @ \o <<"return ", "e", ";\n">>]
    /\ UNCHANGED OthersUnit

\* ProcDecl.handleIdent: the name after the procedure's END.
ProcDeclHandleIdent(id) ==
    /\ ProcAt("body") \/ ProcAt("returned")
    /\ unit' = IF Top(unit.procs).id # id
               THEN [unit EXCEPT !.error = "MismatchedProcedureEndName"]
               ELSE [unit EXCEPT !.procs[Len(unit.procs)].named = TRUE]
    /\ UNCHANGED OthersUnit

\* An end check that wants a RETURN of every procedure.
missingReturnAlways(p) == ~p.returnParsed

\* The test of line 654: a result type is declared and no RETURN was parsed.
missingReturn(p) == p.hasResult /\ ~p.returnParsed

\* ProcDecl.endParse: the body is closed, the scope popped and closed, then
\* the RETURN is looked for.
ProcDeclEndParse ==
    /\ unit.phase = "module" /\ unit.error = "none"
    /\ unit.procs # <<>> /\ Top(unit.procs).named
    /\ LET p == Top(unit.procs)
           u == [popScope(unit) EXCEPT !.out = @ \o <<"}">>, !.procs = Front(@)]
       IN unit' = IF missingReturn(p) THEN [u EXCEPT !.error = "MissingReturn"]
                  ELSE u
    /\ UNCHANGED OthersUnit

InitUnit == unit = UnitStart /\ IdleExcept("unit")

NextUnit ==
    \/ \E id \in ModuleNames : ModuleDeclarationHandleIdent(id)
    \/ \E id \in ProcNames : ProcDeclHandleIdentdef(id)
    \/ ProcDeclSetType
    \/ \E hasResult \in BOOLEAN : FormalParametersProcDeclEndParse(hasResult)
    \/ \E castError \in BOOLEAN : ProcDeclHandleReturn(castError)
    \/ \E id \in ProcNames : ProcDeclHandleIdent(id)
    \/ ProcDeclEndParse

SpecUnit == InitUnit /\ [][NextUnit]_vars

\* The scopes created so far that close() was not yet called on.
OpenScopes(u) == (1..u.nscopes) \ SeqToSet(u.closed)

Max(S) == CHOOSE x \in S : \A y \in S : y <= x

\* C5: in an error-free translation every scope pushed (the module scope
\* and each procedure scope) is popped again, last in first out, so that
\* the scope stack is empty once the module's closing name is processed.
C5_ScopeStackEmptied ==
    (unit.phase = "done" /\ unit.error = "none") => unit.scopes = <<>>

\* C6: a call of close() always goes to the most recently created scope
\* among those not yet closed (a nested procedure's scope closes before the
\* scope of the procedure around it); no scope is closed twice; and when
\* the module has ended every scope created has been closed, the module
\* scope last.
C6_ScopesCloseInReverse ==
    [][/\ unit'.closed # unit.closed =>
            /\ OpenScopes(unit) # {}
            /\ unit'.closed = Append(unit.closed, Max(OpenScopes(unit)))
       /\ unit'.phase = "done" =>
            /\ OpenScopes(unit') = {}
            /\ Len(unit'.closed) = unit'.nscopes
            /\ unit'.closed[Len(unit'.closed)] = 1
      ]_vars

\* A module ended in which a procedure nested in a procedure was declared:
\* the scopes were closed innermost first.
C6_Witness ==
    /\ unit.phase = "done" /\ unit.error = "none"
    /\ unit.closed = <<3, 2, 1>>

\* C10: at the end of a procedure declaration translation fails with
\* MissingReturn iff a result type was declared and no RETURN was handled in
\* the procedure; a procedure with a result and a type-correct RETURN ends
\* without error, and so does one with neither.
C10_MissingReturn ==
    [][ProcDeclEndParse =>
         LET p == Top(unit.procs)
         IN /\ unit'.error = "MissingReturn" <=> (p.hasResult /\ p.stage # "returned")
            /\ (p.hasResult /\ p.stage = "returned") => unit'.error = "none"
            /\ (~p.hasResult /\ p.stage # "returned") => unit'.error = "none"
      ]_vars

\* Translation has stopped with MissingReturn at the end of a procedure with
\* a declared result whose body held no RETURN.
C10_Witness ==
    /\ unit.error = "MissingReturn"
    /\ \E k \in 1..Len(unit.out) : unit.out[k] = "}"
    /\ \A k \in 1..Len(unit.out) : unit.out[k] # "return "

\* C11: a RETURN with an expression in a procedure declared with no result
\* type fails with ReturnWithNoResultDeclared, and one whose expression type
\* cannot be implicitly cast to the declared result type fails with
\* ReturnTypeMismatch; either way no return text is written and the
\* procedure is not marked as having returned.
C11_RejectedReturn ==
    [][\A castError \in BOOLEAN :
         ProcDeclHandleReturn(castError) =>
           LET p == Top(unit.procs)
               untouched == /\ unit'.out = unit.out
                            /\ unit'.procs = unit.procs
                            /\ ~Top(unit'.procs).returnParsed
           IN /\ ~p.hasResult =>
                   unit'.error = "ReturnWithNoResultDeclared" /\ untouched
              /\ (p.hasResult /\ castError) =>
                   unit'.error = "ReturnTypeMismatch" /\ untouched
              /\ (p.hasResult /\ ~castError) =>
                   unit'.error = "none" /\ Top(unit'.procs).returnParsed
      ]_vars

\* A RETURN was refused in a procedure nested in another, one with a result
\* type: nothing of it is in the output.
C11_Witness ==
    /\ unit.error = "ReturnTypeMismatch"
    /\ Len(unit.procs) = 2
    /\ Top(unit.procs).hasResult /\ ~Top(unit.procs).returnParsed
    /\ \A k \in 1..Len(unit.out) : unit.out[k] # "return "

(***************************************************************************)
(* RecordDecl: the types of a TYPE section as a graph.  Type 0 is INTEGER; *)
(* the types 1..ntypes were created by RecordDecl.init, ArrayDecl and      *)
(* PointerDecl, in this order.  A record has a base (-1 for none) and own  *)
(* fields in declaration order, an array an element type, a pointer a base *)
(* record.  open is the stack of the RecordDecl contexts not yet ended.    *)
\* C23: the first identifier a module declaration sees fixes the module
\* name and pushes the module scope; a later identifier equal to the name
\* closes the module scope and publishes its exports, once in all; a later
\* identifier that differs fails with an error naming both, and then the
\* scope is not closed, no exports are published and nothing is written.
C23_ModuleName ==
    /\ [](unit.phase # "idle" => unit.published <= 1)
    /\ [][\A id \in ModuleNames : ModuleDeclarationHandleIdent(id) =>
            /\ unit.phase = "start" =>
                 /\ unit'.name = id /\ unit'.phase = "module"
                 /\ unit'.scopes = <<1>> /\ unit'.closed = <<>>
                 /\ unit'.published = 0
            /\ (unit.phase = "module" /\ id = unit.name) =>
                 /\ unit'.error = "none" /\ unit'.phase = "done"
                 /\ unit'.closed = Append(unit.closed, 1)
                 /\ unit'.published = 1
            /\ (unit.phase = "module" /\ id # unit.name) =>
                 /\ unit'.error = "MismatchedModuleName"
                 /\ unit'.errorNames = <<unit.name, id>>
                 /\ unit'.closed = unit.closed
                 /\ unit'.scopes = unit.scopes
                 /\ unit'.published = 0
                 /\ unit'.out = unit.out
            /\ unit.phase # "start" => unit'.name = unit.name
       ]_vars

\* MODULE M with one procedure ended with END N: the error names M and N,
\* only the procedure's scope was closed and no exports were published.
C23_Witness ==
    /\ unit.error = "MismatchedModuleName"
    /\ unit.errorNames = <<"M", "N">>
    /\ unit.closed = <<2>>
    /\ unit.scopes = <<1>>
    /\ unit.published = 0

(***************************************************************************)
OthersRec == <<cast, forLoop, desig, fwd, unit, arr, caseStmt, expr, constDecl, expo, typeDecl, chain, imp, relExpr, setLit, ctrl, names, promo, heading>>

TypeIds == 0..MaxTypes
FieldNames == {"f", "g"}

NoType == [kind |-> "none", base |-> -1, fields |-> <<>>, elem |-> -1]
BasicEntry == [kind |-> "Basic", base |-> -1, fields |-> <<>>, elem |-> -1]
RecordEntry == [kind |-> "Record", base |-> -1, fields |-> <<>>, elem |-> -1]
ArrayEntry(e) == [kind |-> "Array", base |-> -1, fields |-> <<>>, elem |-> e]
PointerEntry(b) == [kind |-> "Pointer", base |-> b, fields |-> <<>>, elem |-> -1]

RecStart == [phase |-> "types", ntypes |-> 0,
             types |-> [t \in TypeIds |-> IF t = 0 THEN BasicEntry ELSE NoType],
             open |-> <<>>, out |-> <<>>, error |-> "none"]

\* The types that exist: INTEGER and those created so far.
Existing(r) == 0..r.ntypes

KindOf(g, t) == IF t = -1 THEN "undefined" ELSE g[t].kind

RECURSIVE isTypeRecursive(_, _, _)

\* A recursion test that does not look into array elements.
isTypeRecursiveNoArrays(g, type, base) ==
    IF type = base THEN TRUE
    ELSE IF KindOf(g, type) = "Record"
    THEN \/ isTypeRecursive(g, g[type].base, base)
         \/ \E k \in 1..Len(g[type].fields) :
                isTypeRecursive(g, g[type].fields[k].type, base)
    ELSE FALSE

\* isTypeRecursive(type, base) on the type graph g; -1 is undefined.
isTypeRecursive(g, type, base) ==
    IF type = base THEN TRUE
    ELSE IF KindOf(g, type) = "Record"
    THEN \/ isTypeRecursive(g, g[type].base, base)
         \/ \E k \in 1..Len(g[type].fields) :
                isTypeRecursive(g, g[type].fields[k].type, base)
    ELSE IF KindOf(g, type) = "Array"
    THEN isTypeRecursive(g, g[type].elem, base)
    ELSE FALSE

RecOpen == rec.phase = "types" /\ rec.error = "none"

\* RecordDecl.init: a new record type, given to the parent at once.
RecordDeclInit ==
    /\ RecOpen
    /\ rec.ntypes < MaxTypes
    /\ rec' = [rec EXCEPT !.ntypes = @ + 1, !.types[rec.ntypes + 1] = RecordEntry,
                          !.open = Append(@, rec.ntypes + 1)]
    /\ UNCHANGED OthersRec

\* RecordDecl.setBaseType, reached from BaseType.handleQIdent: the base
\* comes once, before the fields.
RecordDeclSetBaseType(type) ==
    /\ RecOpen /\ rec.open # <<>>
    /\ type \in Existing(rec)
    /\ rec.types[Top(rec.open)].base = -1
    /\ rec.types[Top(rec.open)].fields = <<>>
    /\ LET r == Top(rec.open)
       IN rec' = IF rec.types[type].kind # "Record"
                 THEN [rec EXCEPT !.error = "RecordExpected"]
                 ELSE IF isTypeRecursive(rec.types, type, r)
                 THEN [rec EXCEPT !.error = "RecursiveInheritance"]
                 ELSE [rec EXCEPT !.types[r].base = type]
    /\ UNCHANGED OthersRec

\* RecordDecl.addField for a field name the record does not hold yet.
RecordDeclAddField(field, type) ==
    /\ RecOpen /\ rec.open # <<>>
    /\ type \in Existing(rec)
    /\ LET r == Top(rec.open)
       IN /\ Len(rec.types[r].fields) < MaxFields
          /\ \A k \in 1..Len(rec.types[r].fields) : rec.types[r].fields[k].name # field
          /\ rec' = IF isTypeRecursive(rec.types, type, r)
                    THEN [rec EXCEPT !.error = "RecursiveTypeDefinition"]
                    ELSE [rec EXCEPT !.types[r].fields =
                                        Append(@, [name |-> field, type |-> type])]
    /\ UNCHANGED OthersRec

\* parent.genTypeName(): the constructor name of type t.
consName(t) == "T" \o ToString(t)

\* fieldType.initializer(context) of js/Types.js, as text.
fieldInitializer(g, t) ==
    CASE g[t].kind = "Basic" -> "0"
      [] g[t].kind = "Record" -> "new " \o consName(t) \o "()"
      [] g[t].kind = "Pointer" -> "null"
      [] OTHER -> "RTL$.makeArray()"

\* RecordDecl._generateBaseConstructorCallCode.
generateBaseConstructorCallCode(g, r) ==
    IF g[r].base = -1 THEN <<>> ELSE <<consName(g[r].base), ".call(this);\n">>

\* The fields of a record and of its bases, the bases' first.
RECURSIVE allFields(_, _)
allFields(g, r) ==
    IF r = -1 THEN <<>> ELSE allFields(g, g[r].base) \o g[r].fields

RECURSIVE fieldsInitialization(_, _)
fieldsInitialization(g, fields) ==
    IF fields = <<>> THEN <<>>
    ELSE <<"this.", Head(fields).name, " = ",
           fieldInitializer(g, Head(fields).type), ";\n">>
         \o fieldsInitialization(g, Tail(fields))

\* A constructor that initializes the inherited fields as well.
generateFieldsInitializationCodeInherited(g, r) ==
    fieldsInitialization(g, allFields(g, r))

\* Type.recordOwnFields of js/Types.js: the fields added to the record
\* itself, in the order they were added.
recordOwnFields(g, r) == g[r].fields

\* RecordDecl.__generateFieldsInitializationCode.
generateFieldsInitializationCode(g, r) ==
    fieldsInitialization(g, recordOwnFields(g, r))

\* RecordDecl._generateConstructor.
generateConstructor(g, r) ==
    <<"function ", consName(r), "()", "{\n">>
    \o generateBaseConstructorCallCode(g, r)
    \o generateFieldsInitializationCode(g, r)
    \o <<"}\n">>

\* RecordDecl._generateInheritance.
generateInheritance(g, r) ==
    IF g[r].base = -1 THEN <<>>
    ELSE <<"RTL$.extend(", consName(r), ", ", consName(g[r].base), ")", ";\n">>

\* RecordDecl.endParse: the constructor and the inheritance of the innermost
\* record are written in one piece and its declaration ends.
RecordDeclEndParse ==
    /\ RecOpen /\ rec.open # <<>>
    /\ LET r == Top(rec.open)
       IN rec' = [rec EXCEPT !.open = Front(@),
                             !.out = Append(@, generateConstructor(rec.types, r)
                                               \o generateInheritance(rec.types, r))]
    /\ UNCHANGED OthersRec

\* ArrayDecl.endParse: a new array type of the given element type.
RecArrayDecl(elem) ==
    /\ RecOpen
    /\ rec.ntypes < MaxTypes
    /\ elem \in Existing(rec)
    /\ rec' = [rec EXCEPT !.ntypes = @ + 1, !.types[rec.ntypes + 1] = ArrayEntry(elem)]
    /\ UNCHANGED OthersRec

\* PointerDecl.__setTypeId: a new pointer type whose base is a record.
RecPointerDecl(base) ==
    /\ RecOpen
    /\ rec.ntypes < MaxTypes
    /\ base \in Existing(rec)
    /\ rec' = IF rec.types[base].kind # "Record"
              THEN [rec EXCEPT !.error = "InvalidPointerBase"]
              ELSE [rec EXCEPT !.ntypes = @ + 1,
                               !.types[rec.ntypes + 1] = PointerEntry(base)]
    /\ UNCHANGED OthersRec

InitRec == rec = RecStart /\ IdleExcept("rec")

NextRec ==
    \/ RecordDeclInit
    \/ \E t \in TypeIds : RecordDeclSetBaseType(t)
    \/ \E f \in FieldNames : \E t \in TypeIds : RecordDeclAddField(f, t)
    \/ RecordDeclEndParse
    \/ \E t \in TypeIds : RecArrayDecl(t)
    \/ \E t \in TypeIds : RecPointerDecl(t)

SpecRec == InitRec /\ [][NextRec]_vars

\* The types a type holds by value: the base and the field types of a
\* record, the element type of an array (a pointer holds none).
Embedded(g, t) ==
    IF g[t].kind = "Record"
    THEN ({g[t].base} \cup {g[t].fields[k].type : k \in 1..Len(g[t].fields)}) \ {-1}
    ELSE IF g[t].kind = "Array" THEN {g[t].elem}
    ELSE {}

RECURSIVE EmbeddedWithin(_, _, _)
EmbeddedWithin(g, S, n) ==
    IF n = 0 THEN S
    ELSE EmbeddedWithin(g, S \cup UNION {Embedded(g, t) : t \in S}, n - 1)

\* Every type t holds by value, directly or through other types.
EmbeddedStar(g, t) == EmbeddedWithin(g, Embedded(g, t), MaxTypes + 1)

\* The base chain of r, r not included, followed for at most all types.
RECURSIVE BasesWithin(_, _, _)
BasesWithin(g, r, n) ==
    IF n = 0 \/ g[r].base = -1 THEN {}
    ELSE {g[r].base} \cup BasesWithin(g, g[r].base, n - 1)

WellFormedRecords(g) ==
    \A r \in TypeIds :
        g[r].kind = "Record" =>
            /\ r \notin BasesWithin(g, r, MaxTypes + 1)
            /\ r \notin EmbeddedStar(g, r)

\* C7: after every setBaseType and addField call the base chain of every
\* record is acyclic and no record holds itself by value through bases,
\* fields or array elements; a call that would break this fails at once,
\* with RecursiveInheritance for a base and RecursiveTypeDefinition for a
\* field, and leaves the types as they were; a field whose type is a pointer
\* to the record being declared is accepted.
C7_RecordsWellFormed ==
    [][/\ WellFormedRecords(rec'.types)
       /\ rec'.error \in {"RecursiveInheritance", "RecursiveTypeDefinition"}
             => rec'.types = rec.types
       /\ \A t \in TypeIds :
            (RecordDeclSetBaseType(t) /\ rec.types[t].kind = "Record") =>
                (rec'.error = "RecursiveInheritance"
                    <=> Top(rec.open) \in {t} \cup EmbeddedStar(rec.types, t))
       /\ \A f \in FieldNames : \A t \in TypeIds :
            RecordDeclAddField(f, t) =>
                /\ rec'.error = "RecursiveTypeDefinition"
                      <=> Top(rec.open) \in {t} \cup EmbeddedStar(rec.types, t)
                /\ (rec.types[t].kind = "Pointer" /\ rec.types[t].base = Top(rec.open))
                      => (rec'.error = "none" /\ rec'.types # rec.types)
      ]_vars

\* A field whose type is an array of the record being declared was refused.
C7_Witness ==
    /\ rec.error = "RecursiveTypeDefinition"
    /\ rec.open # <<>>
    /\ \E a \in TypeIds : rec.types[a].kind = "Array" /\ rec.types[a].elem = Top(rec.open)

(***************************************************************************)
(* ArrayDecl with ArrayDimensions: ARRAY d1, ..., dk OF T.  A static array *)
(* type is [kind, init, elem, length]; init is NoInit for undefined.       *)
(***************************************************************************)
OthersArr == <<cast, forLoop, desig, fwd, unit, rec, caseStmt, expr, constDecl, expo, typeDecl, chain, imp, relExpr, setLit, ctrl, names, promo, heading>>

NoInit == [fn |-> "undefined", dimensions |-> <<>>, initializer |-> <<>>]

\* The element types: basic types, a record, a pointer and named array types.
NamedArray == [kind |-> "StaticArray",
               init |-> [fn |-> "makeArray", dimensions |-> <<MaxLen>>,
                         initializer |-> <<"0">>],
               elem |-> TInt, length |-> MaxLen]
NamedCharArray == [kind |-> "StaticArray",
                   init |-> [fn |-> "makeCharArray", dimensions |-> <<MaxLen>>,
                             initializer |-> <<>>],
                   elem |-> TCh, length |-> MaxLen]
ArrElementTypes == {TInt, TCh, TReal, TRec, TPtr, NamedArray, NamedCharArray}

ArrStart == [phase |-> "dimensions", dimensions |-> <<>>, given |-> <<>>,
             elementsType |-> TInt, type |-> TInt, result |-> TInt,
             error |-> "none"]

\* The dimension expressions: type and optional constant.
ArrExpressions ==
    {[type |-> t, const |-> c] :
        t \in {"INTEGER", "REAL"}, c \in {<<>>} \cup {<<v>> : v \in (-1)..MaxLen}}

\* A handleExpression that puts the new dimension before the others and
\* takes a size of 0.
ArrayDimensionsHandleExpressionPrepends(e) ==
    /\ arr.phase = "dimensions" /\ arr.error = "none"
    /\ Len(arr.dimensions) < MaxDims
    /\ arr' = IF e.type # "INTEGER" THEN [arr EXCEPT !.error = "IntegerExpected"]
              ELSE IF e.const = <<>>
              THEN [arr EXCEPT !.error = "ConstantExpressionExpected"]
              ELSE IF e.const[1] < 0
              THEN [arr EXCEPT !.error = "NonPositiveArraySize"]
              ELSE [arr EXCEPT !.dimensions = <<e.const[1]>> \o @]
    /\ UNCHANGED OthersArr

\* ArrayDimensions.handleExpression with _addDimension.
ArrayDimensionsHandleExpression(e) ==
    /\ arr.phase = "dimensions" /\ arr.error = "none"
    /\ Len(arr.dimensions) < MaxDims
    /\ arr' = IF e.type # "INTEGER" THEN [arr EXCEPT !.error = "IntegerExpected"]
              ELSE IF e.const = <<>>
              THEN [arr EXCEPT !.error = "ConstantExpressionExpected"]
              ELSE IF e.const[1] <= 0
              THEN [arr EXCEPT !.error = "NonPositiveArraySize"]
              ELSE [arr EXCEPT !.dimensions = Append(@, e.const[1])]
    /\ UNCHANGED OthersArr

\* ArrayDimensions.endParse -> ArrayDecl.handleDimensions.
ArrayDimensionsEndParse ==
    /\ arr.phase = "dimensions" /\ arr.error = "none"
    /\ arr.dimensions # <<>>
    /\ arr' = [arr EXCEPT !.phase = "type", !.given = arr.dimensions]
    /\ UNCHANGED OthersArr

\* type.initializer(context) of js/Types.js, as text.
initializer(type) ==
    CASE type.kind = "Basic" -> <<"0">>
      [] type.kind = "Record" -> <<"new ", type.name, "()">>
      [] type.kind = "Pointer" -> <<"null">>
      [] OTHER -> <<"RTL$.", type.init.fn, "(...)">>

\* ArrayDecl._makeInit.
makeInit(type, dimensions, length) ==
    IF type = TCh
    THEN [fn |-> "makeCharArray", dimensions |-> dimensions, initializer |-> <<>>]
    ELSE [fn |-> "makeArray", dimensions |-> dimensions,
          initializer |-> IF type.kind \in {"StaticArray", "OpenArray", "Record"}
                          THEN <<"function(){return ">> \o initializer(type) \o <<";}">>
                          ELSE initializer(type)]

\* ArrayDecl._makeType.
makeType(elementsType, init, length) ==
    [kind |-> "StaticArray", init |-> init, elem |-> elementsType, length |-> length]

\* An initializer given to the array type of every dimension.
arrayInitEveryDimension(i, elementsType, dimensions, length) ==
    makeInit(elementsType, dimensions, length)

\* Line 750: the initializer of the array type built at index i.
arrayInit(i, elementsType, dimensions, length) ==
    IF i # 0 THEN NoInit ELSE makeInit(elementsType, dimensions, length)

\* The loop of ArrayDecl.setType, entered with i the index just above the
\* next one (for (i = length; i--;)), the type and the dimensions so far.
RECURSIVE setTypeLoop(_, _, _, _, _)
setTypeLoop(dims, elementsType, i, type, dimensions) ==
    IF i = 0 THEN type
    ELSE LET j == i - 1
             length == dims[j + 1]
             dimensions1 == <<length>> \o dimensions
             init == arrayInit(j, elementsType, dimensions1, length)
         IN setTypeLoop(dims, elementsType, j,
                        makeType(type, init, length), dimensions1)

\* ArrayDecl.setType, reached from HandleSymbolAsType.handleQIdent.
ArrayDeclSetType(elementsType) ==
    /\ arr.phase = "type" /\ arr.error = "none"
    /\ arr' = [arr EXCEPT !.phase = "typed", !.elementsType = elementsType,
                          !.type = setTypeLoop(arr.given, elementsType,
                                               Len(arr.given), elementsType, <<>>)]
    /\ UNCHANGED OthersArr

\* ArrayDecl.endParse: the type is given to the parent.
ArrayDeclEndParse ==
    /\ arr.phase = "typed" /\ arr.error = "none"
    /\ arr' = [arr EXCEPT !.phase = "done", !.result = arr.type]
    /\ UNCHANGED OthersArr

InitArr == arr = ArrStart /\ IdleExcept("arr")

NextArr ==
    \/ \E e \in ArrExpressions : ArrayDimensionsHandleExpression(e)
    \/ ArrayDimensionsEndParse
    \/ \E t \in ArrElementTypes : ArrayDeclSetType(t)
    \/ ArrayDeclEndParse

SpecArr == InitArr /\ [][NextArr]_vars

\* The array types built for the dimensions 1..k of the result, outermost
\* (first dimension) first.
RECURSIVE DimensionTypes(_, _)
DimensionTypes(type, k) ==
    IF k = 0 THEN <<>> ELSE <<type>> \o DimensionTypes(type.elem, k - 1)

\* The claim as stated: the array type of the innermost dimension, whose
\* elements are of the declared element type, carries the initializer and
\* the array types of the other dimensions carry none.
C9_InnermostCarriesInit ==
    arr.phase = "done" =>
        LET k == Len(arr.given)
            L == DimensionTypes(arr.result, k)
        IN /\ L[k].elem = arr.elementsType
           /\ L[k].init # NoInit
           /\ \A j \in 1..(k - 1) : L[j].init = NoInit

\* C9: of the k >= 1 array types built for a static array declaration the
\* one of the first (outermost) dimension, which is the declared type as a
\* whole, carries the element initializer, made for all k dimensions in
\* their order; the array types of the other dimensions carry none, so the
\* innermost one carries it only when k = 1.
C9_OutermostCarriesInit ==
    arr.phase = "done" =>
        LET k == Len(arr.given)
            L == DimensionTypes(arr.result, k)
        IN /\ L[k].elem = arr.elementsType
           /\ \A j \in 1..k : L[j].length = arr.given[j]
           /\ L[1].init # NoInit
           /\ L[1].init.dimensions = arr.given
           /\ L[1].init.fn = IF arr.elementsType = TCh THEN "makeCharArray"
                             ELSE "makeArray"
           /\ \A j \in 2..k : L[j].init = NoInit

\* An array of two dimensions was declared.
C9_Witness ==
    /\ arr.phase = "done"
    /\ Len(arr.given) = 2
    /\ arr.result.init.dimensions = arr.given
    /\ arr.result.elem.init = NoInit

\* The tokens of a text that follow a token equal to mark, in order.
RECURSIVE After(_, _)
After(text, mark) ==
    IF Len(text) < 2 THEN <<>>
    ELSE IF Head(text) = mark THEN <<text[2]>> \o After(Tail(Tail(text)), mark)
    ELSE After(Tail(text), mark)

\* The positions of a text that hold the token.
Positions(text, token) == {k \in 1..Len(text) : text[k] = token}

\* The text up to the end of the constructor function.
ConstructorOf(text) ==
    SubSeq(text, 1, CHOOSE k \in Positions(text, "}\n") : TRUE)

OthersCase == <<cast, forLoop, desig, fwd, unit, rec, arr, expr, constDecl, expo, typeDecl, chain, imp, relExpr, setLit, ctrl, names, promo, heading>>

\* Scope.generateTempVar("case").
caseVar == "$case1"

CaseConsts == {1, 3, 5}
CaseExpressionTypes == {"INTEGER", "BYTE", "CHAR", "String1", "BOOLEAN"}
CaseLabelTypes == {"INTEGER", "BYTE", "CHAR", "String1", "String2"}

\* Case.init: the temporary is generated and its declaration begun.
CaseStart == [phase |-> "expression", type |-> "undefined", firstCase |-> TRUE,
              glue |-> "", from |-> <<>>, to |-> <<>>, alts |-> <<>>,
              nlabels |-> 0, out |-> <<"var ", caseVar, " = ">>,
              error |-> "none"]

CaseFail(c, e) == [c EXCEPT !.error = e]

\* Expression.endParse under Case, then Case.handleExpression.
CaseHandleExpression(type) ==
    /\ caseStmt.phase = "expression" /\ caseStmt.error = "none"
    /\ LET c1 == [caseStmt EXCEPT !.out = @ \o <<"e">>]
           c2 == IF type = "String1" THEN [c1 EXCEPT !.out = @ \o <<"v">>] ELSE c1
           t == IF type = "String1" THEN "CHAR" ELSE type
       IN caseStmt' =
            IF t \notin {"INTEGER", "BYTE"} /\ t # "CHAR"
            THEN CaseFail(c2, "CaseExpressionType")
            ELSE [c2 EXCEPT !.type = t, !.out = @ \o <<";\n">>, !.phase = "case"]
    /\ UNCHANGED OthersCase

\* CaseLabel.init and CaseLabelList.init: an alternative begins.
CaseLabelListInit ==
    /\ caseStmt.phase = "case" /\ caseStmt.error = "none"
    /\ caseStmt.nlabels < MaxLabels
    /\ caseStmt' = [caseStmt EXCEPT !.phase = "labels", !.glue = "",
                                    !.alts = Append(@, <<>>)]
    /\ UNCHANGED OthersCase

\* Cast.areTypesMatch of js/Cast.js for the types of labels: the label
\* must be of the type of the CASE expression exactly.
areTypesMatch(a, b) == a = b

\* Case.handleLabelType, reached through CaseLabelList and CaseLabel.
handleLabelType(c, type) == areTypesMatch(type, c.type)

\* A handleLabel that keeps the label without asking for its type.
handleLabelUnchecked(c, type, v) ==
    IF c.from = <<>> THEN [c EXCEPT !.from = <<v>>]
    ELSE [c EXCEPT !.to = <<v>>]

\* CaseRange.handleLabel.
handleLabel(c, type, v) ==
    IF ~handleLabelType(c, type) THEN CaseFail(c, "LabelTypeMismatch")
    ELSE IF c.from = <<>> THEN [c EXCEPT !.from = <<v>>]
    ELSE [c EXCEPT !.to = <<v>>]

\* A label may come: the first of a range, or the second after "..".
CaseLabelMayCome ==
    /\ caseStmt.phase = "labels" /\ caseStmt.error = "none"
    /\ caseStmt.to = <<>>
    /\ caseStmt.from = <<>> => caseStmt.nlabels < MaxLabels

\* CaseRange.handleConst.
CaseRangeHandleConst(type, value) ==
    /\ CaseLabelMayCome
    /\ caseStmt' = IF type = "String2"
                   THEN CaseFail(caseStmt, "SingleCharStringExpected")
                   ELSE handleLabel(caseStmt,
                                    IF type = "String1" THEN "CHAR" ELSE type,
                                    value)
    /\ UNCHANGED OthersCase

\* CaseRange.handleIdent for a symbol that is a constant or is not.
CaseRangeHandleIdent(isConst, type, value) ==
    /\ CaseLabelMayCome
    /\ caseStmt' = IF ~isConst THEN CaseFail(caseStmt, "NotConstant")
                   ELSE IF type = "String2"
                   THEN CaseFail(caseStmt, "SingleCharStringExpected")
                   ELSE handleLabel(caseStmt,
                                    IF type = "String1" THEN "CHAR" ELSE type,
                                    value)
    /\ UNCHANGED OthersCase

\* A beginCase that never writes "else ".
beginCaseNoElse(c) ==
    IF c.firstCase THEN [c EXCEPT !.firstCase = FALSE] ELSE c

\* Case.beginCase.
beginCase(c) ==
    IF c.firstCase THEN [c EXCEPT !.firstCase = FALSE]
    ELSE [c EXCEPT !.out = @ \o <<"else ">>]

\* CaseLabel.caseLabelBegin.
caseLabelBegin(c) == [beginCase(c) EXCEPT !.out = @ \o <<"if (">>]

\* A test that leaves the upper end of a range open.
condNoUpperEnd(v, from, to) ==
    IF to = <<>> THEN <<v, " === ", ToString(from[1])>>
    ELSE <<"(", v, " >= ", ToString(from[1]), ")">>

\* The test of one range, lines 1380-1382.
cond(v, from, to) ==
    IF to = <<>> THEN <<v, " === ", ToString(from[1])>>
    ELSE <<"(", v, " >= ", ToString(from[1]), " && ",
           v, " <= ", ToString(to[1]), ")">>

\* CaseRange.endParse -> CaseLabelList.handleRange.
CaseRangeEndParse ==
    /\ caseStmt.phase = "labels" /\ caseStmt.error = "none"
    /\ caseStmt.from # <<>>
    /\ LET c1 == IF caseStmt.glue = "" THEN caseLabelBegin(caseStmt) ELSE caseStmt
           g == IF caseStmt.glue = "" THEN <<>> ELSE <<caseStmt.glue>>
       IN caseStmt' =
            [c1 EXCEPT !.out = @ \o g \o cond(caseVar, caseStmt.from, caseStmt.to),
                       !.glue = " || ", !.from = <<>>, !.to = <<>>,
                       !.nlabels = @ + 1,
                       !.alts[Len(caseStmt.alts)] =
                            Append(@, caseStmt.from \o caseStmt.to)]
    /\ UNCHANGED OthersCase

\* CaseLabelList.endParse -> CaseLabel.caseLabelEnd.
CaseLabelListEndParse ==
    /\ caseStmt.phase = "labels" /\ caseStmt.error = "none"
    /\ caseStmt.glue # "" /\ caseStmt.from = <<>>
    /\ caseStmt' = [caseStmt EXCEPT !.out = @ \o <<")", "{\n">>, !.phase = "body"]
    /\ UNCHANGED OthersCase

\* CaseLabel.endParse: the body of the alternative is closed.
CaseLabelEndParse ==
    /\ caseStmt.phase = "body" /\ caseStmt.error = "none"
    /\ caseStmt' = [caseStmt EXCEPT !.out = @ \o <<"}\n">>, !.phase = "case"]
    /\ UNCHANGED OthersCase

InitCase == caseStmt = CaseStart /\ IdleExcept("case")

NextCase ==
    \/ \E t \in CaseExpressionTypes : CaseHandleExpression(t)
    \/ CaseLabelListInit
    \/ \E t \in CaseLabelTypes : \E v \in CaseConsts : CaseRangeHandleConst(t, v)
    \/ \E k \in BOOLEAN : \E t \in CaseLabelTypes : \E v \in CaseConsts :
          CaseRangeHandleIdent(k, t, v)
    \/ CaseRangeEndParse
    \/ CaseLabelListEndParse
    \/ CaseLabelEndParse

SpecCase == InitCase /\ [][NextCase]_vars

\* The number a decimal text stands for.
Num(text) == CHOOSE n \in 0..9 : ToString(n) = text

\* The pieces of a text between the tokens equal to sep.
RECURSIVE Split(_, _)
Split(text, sep) ==
    IF \A k \in 1..Len(text) : text[k] # sep THEN <<text>>
    ELSE LET k == CHOOSE i \in 1..Len(text) :
                     text[i] = sep /\ \A j \in 1..(i - 1) : text[j] # sep
         IN <<SubSeq(text, 1, k - 1)>> \o Split(SubSeq(text, k + 1, Len(text)), sep)

\* The guard being written: the text after the last "if (".
LastGuard(text) ==
    LET k == CHOOSE i \in Positions(text, "if (") :
                 \A j \in Positions(text, "if (") : j <= i
    IN SubSeq(text, k + 1, Len(text))

\* What a test written in JavaScript answers for the value x of the
\* temporary; a text that is no test answers nothing (FALSE).
EvalTest(test, x) ==
    IF Len(test) = 3 /\ test[1] = caseVar /\ test[2] = " === "
    THEN x = Num(test[3])
    ELSE IF /\ Len(test) = 9
            /\ <<test[1], test[2], test[3], test[5], test[6], test[7], test[9]>>
                 = <<"(", caseVar, " >= ", " && ", caseVar, " <= ", ")">>
    THEN x >= Num(test[4]) /\ x <= Num(test[8])
    ELSE FALSE

EvalGuard(guard, x) ==
    LET tests == Split(guard, " || ")
    IN \E k \in 1..Len(tests) : EvalTest(tests[k], x)

\* The value x is one the label range stands for.
InRange(range, x) ==
    IF Len(range) = 1 THEN x = range[1] ELSE range[1] <= x /\ x <= range[2]

CaseValues == 0..6

\* C13: the guard emitted for one alternative is the disjunction, in source
\* order, of one test per label of the alternative: an equality test of the
\* temporary against the constant for a single label and a closed interval
\* test for a range; for 1, 3..5 it answers as (x = 1) OR (x >= 3 AND x <= 5).
C13_GuardIsDisjunction ==
    [][CaseLabelListEndParse =>
         LET labels == Top(caseStmt.alts)
             guard == LastGuard(caseStmt.out)
             tests == Split(guard, " || ")
         IN /\ Len(tests) = Len(labels)
            /\ \A k \in 1..Len(labels) :
                 \A x \in CaseValues : EvalTest(tests[k], x) <=> InRange(labels[k], x)
            /\ \A k \in 1..Len(labels) :
                 Len(labels[k]) = 1 =>
                    tests[k] = <<caseVar, " === ", ToString(labels[k][1])>>
            /\ labels = <<<<1>>, <<3, 5>>>> =>
                 \A x \in CaseValues :
                    EvalGuard(guard, x) <=> (x = 1 \/ (x >= 3 /\ x <= 5))
            /\ caseStmt'.out = caseStmt.out \o <<")", "{\n">>
      ]_vars

\* The guard of the alternative with the labels 1, 3..5 is complete.
C13_Witness ==
    /\ caseStmt.phase = "body"
    /\ Top(caseStmt.alts) = <<<<1>>, <<3, 5>>>>

\* The positions of a text that hold the token, in ascending order.
RECURSIVE PositionSeq(_, _, _)
PositionSeq(text, token, k) ==
    IF k > Len(text) THEN <<>>
    ELSE (IF text[k] = token THEN <<k>> ELSE <<>>) \o PositionSeq(text, token, k + 1)

\* The guard opened at position p of a text: up to the ")" before the next
\* opening of a body.
GuardAt(text, p) ==
    LET e == CHOOSE j \in Positions(text, "{\n") :
                 j > p /\ \A i \in Positions(text, "{\n") : i > p => j <= i
    IN SubSeq(text, p + 1, e - 2)

\* The alternatives whose body the written JavaScript executes for the value
\* x of the temporary: an if preceded by else is reached only when no guard
\* before it in its chain held.
RECURSIVE Executed(_, _, _, _, _)
Executed(text, ifs, i, taken, x) ==
    IF i > Len(ifs) THEN {}
    ELSE LET chained == ifs[i] > 1 /\ text[ifs[i] - 1] = "else "
             holds == EvalGuard(GuardAt(text, ifs[i]), x)
             runs == holds /\ ~(chained /\ taken)
         IN (IF runs THEN {i} ELSE {})
            \cup Executed(text, ifs, i + 1, IF chained THEN taken \/ holds ELSE holds, x)

\* The alternatives, by their labels, that the value x matches.
Matching(alts, x) ==
    {i \in 1..Len(alts) : \E k \in 1..Len(alts[i]) : InRange(alts[i][k], x)}

\* The text of c encodes its alternatives as one chain of guarded
\* alternatives in which the first match wins.
SequentialAlternatives(c) ==
    LET ifs == PositionSeq(c.out, "if (", 1)
    IN /\ Len(ifs) = Len(c.alts)
       /\ \A i \in 1..Len(ifs) :
            (c.out[ifs[i] - 1] = "else ") <=> (i > 1)
       /\ \A x \in CaseValues :
            LET run == Executed(c.out, ifs, 1, FALSE, x)
                m == Matching(c.alts, x)
            IN /\ Cardinality(run) <= 1
               /\ run = IF m = {} THEN {} ELSE {CHOOSE i \in m : \A j \in m : i <= j}

\* C14: the alternatives of a multi-way branch are written as sequential
\* guarded alternatives, the first opened with "if (" and every later one
\* with "else if (", so that at run time at most one body executes and the
\* first alternative in source order whose guard matches wins; a label range
\* is never rejected for overlapping or repeating another.
C14_FirstMatchWins ==
    [][/\ CaseLabelListEndParse => SequentialAlternatives(caseStmt')
       /\ CaseRangeEndParse =>
            /\ caseStmt'.error = "none"
            /\ Len(Top(caseStmt'.alts)) = Len(Top(caseStmt.alts)) + 1
      ]_vars

\* Two alternatives are written whose labels overlap: 1..5, then 3.
C14_Witness ==
    /\ caseStmt.phase = "body" /\ caseStmt.error = "none"
    /\ Len(caseStmt.alts) = 2
    /\ caseStmt.alts[1] = <<<<1, 5>>>>
    /\ caseStmt.alts[2] = <<<<3>>>>

\* What a label constant of the given type must come to: refused when it
\* is a string of more than one character or when its type, a string of
\* one character being a CHAR, is not the type of the CASE expression,
\* and then nothing is kept or written; kept as a bound otherwise.
LabelChecked(type, v) ==
    LET t == IF type = "String1" THEN "CHAR" ELSE type
    IN /\ type = "String2" <=> caseStmt'.error = "SingleCharStringExpected"
       /\ (type # "String2" /\ t # caseStmt.type)
             <=> caseStmt'.error = "LabelTypeMismatch"
       /\ caseStmt'.error # "none" =>
             /\ caseStmt'.out = caseStmt.out
             /\ caseStmt'.from = caseStmt.from /\ caseStmt'.to = caseStmt.to
             /\ caseStmt'.alts = caseStmt.alts
       /\ caseStmt'.error = "none" =>
             /\ caseStmt'.out = caseStmt.out
             /\ caseStmt'.from \o caseStmt'.to = caseStmt.from \o <<v>>

\* C30: every label constant of a CASE, both bounds of a range, a literal
\* or a named constant, must be of the type of the CASE expression
\* exactly; a label of another type fails before any guard text for it is
\* written; a label identifier that is not a constant fails, and so does
\* a string label of more than one character.
C30_LabelTypes ==
    [][/\ \A t \in CaseLabelTypes : \A v \in CaseConsts :
            CaseRangeHandleConst(t, v) => LabelChecked(t, v)
       /\ \A t \in CaseLabelTypes : \A v \in CaseConsts :
            /\ CaseRangeHandleIdent(TRUE, t, v) => LabelChecked(t, v)
            /\ CaseRangeHandleIdent(FALSE, t, v) =>
                 /\ caseStmt'.error = "NotConstant"
                 /\ caseStmt'.out = caseStmt.out
                 /\ caseStmt'.from = caseStmt.from /\ caseStmt'.to = caseStmt.to
       /\ CaseRangeEndParse => caseStmt.error = "none"
      ]_vars

\* In CASE i OF 1 .. "a" with i an INTEGER the second bound was refused:
\* the guard of the alternative was not begun.
C30_Witness ==
    /\ caseStmt.error = "LabelTypeMismatch"
    /\ caseStmt.type = "INTEGER"
    /\ caseStmt.from = <<1>> /\ caseStmt.to = <<>>
    /\ caseStmt.alts = << <<>> >>
    /\ caseStmt.out = <<"var ", caseVar, " = ", "e", ";\n">>

(***************************************************************************)
(* SimpleExpression, Term, AddOperator and MulOperator:                    *)
(*   ["+" | "-"] factor {mulop factor} {addop factor {mulop factor}}.      *)
(* An expression is kept as its type, <<>> standing for undefined, an      *)
(* operator as its name in js/operator.js, "" standing for undefined.      *)
(* applied is the history of the operations applied with the types of      *)
(* their operands.                                                         *)
(***************************************************************************)
OthersExpr == <<cast, forLoop, desig, fwd, unit, rec, arr, caseStmt, constDecl, expo, typeDecl, chain, imp, relExpr, setLit, ctrl, names, promo, heading>>

ExprTypes == {TInt, TByte, TReal, TSet, TBool, TCh}

ExprStart == [phase |-> "start", type |-> <<>>, exp |-> <<>>,
              unaryOperator |-> "", binaryOperator |-> "",
              termExpression |-> <<>>, termOperator |-> "",
              applied |-> <<>>, noperands |-> 0, error |-> "none"]

ExprFail(x, e) == [x EXCEPT !.error = e, !.phase = "error"]

\* Type.numeric() of js/Types.js.
numeric(t) == isInt(t) \/ t = TReal

\* language.types.implicitCast for basic types: TRUE when the cast is
\* refused.  A type casts to itself and a narrower integer kind to a wider.
implicitCastFails(from, to) ==
    ~(from = to \/ (from = TByte /\ to = TInt))

\* An operator selection that takes every numeric type for floating.
assertNumericOrSetOpNoInt(x, type, op, intOp, setOp) ==
    IF ~(numeric(type) \/ type = TSet) THEN ExprFail(x, "OperatorTypeMismatch")
    ELSE [x EXCEPT !.result = IF type = TSet THEN setOp ELSE op]

\* assertNumericOrSetOp: the state with the operation in result, or failed.
assertNumericOrSetOp(x, type, op, intOp, setOp) ==
    IF ~(numeric(type) \/ type = TSet) THEN ExprFail(x, "OperatorTypeMismatch")
    ELSE [x EXCEPT !.result = IF isInt(type) THEN intOp
                              ELSE IF type = TSet THEN setOp ELSE op]

\* assertNumericOp.
assertNumericOp(x, type, op, intOp) ==
    IF ~numeric(type) THEN ExprFail(x, "OperatorTypeMismatch")
    ELSE [x EXCEPT !.result = IF intOp # "" /\ isInt(type) THEN intOp ELSE op]

\* An integer check that lets every numeric type pass.
assertIntOpNumeric(x, type, op) ==
    IF ~numeric(type) THEN ExprFail(x, "OperatorTypeMismatch")
    ELSE [x EXCEPT !.result = op]

\* assertIntOp.
assertIntOp(x, type, op) ==
    IF ~isInt(type) THEN ExprFail(x, "OperatorTypeMismatch")
    ELSE [x EXCEPT !.result = op]

\* The state x with a result field to hold a selected operation.
WithResult(x) == [f \in DOMAIN x \cup {"result"} |->
                     IF f = "result" THEN "" ELSE x[f]]
WithoutResult(x) == [f \in DOMAIN x \ {"result"} |-> x[f]]

\* AddOperator._matchPlusOperator with the mismatch of __matchOperator.
matchPlusOperator(x, type) ==
    IF type = TSet THEN [x EXCEPT !.result = "setUnion"]
    ELSE IF isInt(type) THEN [x EXCEPT !.result = "addInt"]
    ELSE IF type = TReal THEN [x EXCEPT !.result = "addReal"]
    ELSE ExprFail(x, "OperatorTypeMismatch")

\* AddOperator.__matchOperator.
matchOperator(x, s, type) ==
    CASE s = "+" -> matchPlusOperator(x, type)
      [] s = "-" -> assertNumericOrSetOp(x, type, "subReal", "subInt", "setDiff")
      [] OTHER -> IF type # TBool THEN ExprFail(x, "BooleanExpected")
                  ELSE [x EXCEPT !.result = "or"]

\* SimpleExpression.handleLiteral: a sign before the first term.
SimpleExpressionHandleLiteral(s) ==
    /\ expr.phase = "start"
    /\ expr' = [expr EXCEPT !.unaryOperator = s, !.phase = "factor"]
    /\ UNCHANGED OthersExpr

\* promoteExpressionType and Term.handleExpression for a factor of type t.
TermHandleExpression(t) ==
    /\ expr.phase \in {"start", "factor"}
    /\ expr.noperands < MaxOperands
    /\ LET left == expr.termExpression
           x == [expr EXCEPT !.noperands = @ + 1, !.phase = "afterFactor"]
       IN expr' =
            IF left # <<>> /\ implicitCastFails(t, left[1])
            THEN ExprFail(expr, "TypeMismatch")
            ELSE IF expr.termOperator # "" /\ left # <<>>
            THEN [x EXCEPT !.applied = Append(@, [op |-> expr.termOperator,
                                                  left |-> left[1], right |-> t])]
            ELSE [x EXCEPT !.termExpression = <<t>>]
    /\ UNCHANGED OthersExpr

\* MulOperator.handleLiteral with Term.handleOperator.
MulOperatorHandleLiteral(s) ==
    /\ expr.phase = "afterFactor"
    /\ expr.noperands < MaxOperands
    /\ LET type == expr.termExpression[1]
           x == WithResult(expr)
           y == CASE s = "*" -> assertNumericOrSetOp(x, type, "mulReal", "mulInt",
                                                     "setIntersection")
                  [] s = "/" -> IF isInt(type) THEN ExprFail(x, "DivExpected")
                                ELSE assertNumericOrSetOp(x, type, "divReal", "",
                                                          "setSymmetricDiff")
                  [] s = "DIV" -> assertIntOp(x, type, "divInt")
                  [] s = "MOD" -> assertIntOp(x, type, "mod")
                  [] OTHER -> IF type # TBool THEN ExprFail(x, "BooleanExpected")
                              ELSE [x EXCEPT !.result = "and"]
       IN expr' = IF y.error # "none" THEN WithoutResult(y)
                  ELSE [WithoutResult(y) EXCEPT !.termOperator = y.result,
                                                !.phase = "factor"]
    /\ UNCHANGED OthersExpr

\* SimpleExpression.setType.
setType(x, type) ==
    IF x.type = <<>> THEN [x EXCEPT !.type = <<type>>]
    ELSE IF implicitCastFails(type, x.type[1]) THEN ExprFail(x, "TypeMismatch")
    ELSE x

\* Term.endParse -> SimpleExpression.handleTerm.
TermEndParse ==
    /\ expr.phase = "afterFactor"
    /\ LET type == expr.termExpression[1]
           x1 == setType(expr, type)
           x2 == CASE expr.unaryOperator = "-" ->
                        assertNumericOrSetOp(WithResult(x1), type, "negateReal",
                                             "negateInt", "setComplement")
                   [] expr.unaryOperator = "+" ->
                        assertNumericOp(WithResult(x1), type, "unaryPlus", "")
                   [] OTHER -> WithResult(x1)
           x3 == WithoutResult(x2)
           end == [x3 EXCEPT !.termExpression = <<>>, !.termOperator = "",
                             !.phase = "afterTerm"]
       IN expr' =
            IF x1.error # "none" THEN x1
            ELSE IF x2.error # "none" THEN x3
            ELSE IF x2.result # ""
            THEN [end EXCEPT !.exp = <<type>>, !.unaryOperator = "",
                             !.applied = Append(@, [op |-> x2.result,
                                                    left |-> type, right |-> type])]
            ELSE IF expr.exp # <<>>
            THEN [end EXCEPT !.applied = Append(@, [op |-> expr.binaryOperator,
                                                    left |-> expr.exp[1],
                                                    right |-> type])]
            ELSE [end EXCEPT !.exp = <<type>>]
    /\ UNCHANGED OthersExpr

\* AddOperator.handleLiteral with SimpleExpression.handleBinaryOperator.
AddOperatorHandleLiteral(s) ==
    /\ expr.phase = "afterTerm"
    /\ expr.noperands < MaxOperands
    /\ LET y == matchOperator(WithResult(expr), s, expr.type[1])
       IN expr' = IF y.error # "none" THEN WithoutResult(y)
                  ELSE [WithoutResult(y) EXCEPT !.binaryOperator = y.result,
                                                !.phase = "factor"]
    /\ UNCHANGED OthersExpr

\* SimpleExpression.endParse.
SimpleExpressionEndParse ==
    /\ expr.phase = "afterTerm"
    /\ expr' = [expr EXCEPT !.phase = "done"]
    /\ UNCHANGED OthersExpr

InitExpr == expr = ExprStart /\ IdleExcept("expr")

NextExpr ==
    \/ \E s \in {"+", "-"} : SimpleExpressionHandleLiteral(s)
    \/ \E t \in ExprTypes : TermHandleExpression(t)
    \/ \E s \in {"*", "/", "DIV", "MOD", "&"} : MulOperatorHandleLiteral(s)
    \/ TermEndParse
    \/ \E s \in {"+", "-", "OR"} : AddOperatorHandleLiteral(s)
    \/ SimpleExpressionEndParse

SpecExpr == InitExpr /\ [][NextExpr]_vars

\* The operation of js/operator.js that + - * stand for on integers, on the
\* floating type and on sets.
OpFor(s, class) ==
    CASE s = "+" -> (CASE class = "int" -> "addInt" [] class = "real" -> "addReal"
                       [] OTHER -> "setUnion")
      [] s = "-" -> (CASE class = "int" -> "subInt" [] class = "real" -> "subReal"
                       [] OTHER -> "setDiff")
      [] OTHER -> (CASE class = "int" -> "mulInt" [] class = "real" -> "mulReal"
                     [] OTHER -> "setIntersection")

\* What selecting an operation for s on an operand of type t must come to:
\* selected is the operation held after the step, failed the error.
SelectedByType(s, t, selected, failed) ==
    /\ (t \in {TInt, TByte}) <=> (failed = "none" /\ selected = OpFor(s, "int"))
    /\ (t = TReal) <=> (failed = "none" /\ selected = OpFor(s, "real"))
    /\ (t = TSet) <=> (failed = "none" /\ selected = OpFor(s, "set"))
    /\ (t \notin {TInt, TByte, TReal, TSet}) <=> (failed = "OperatorTypeMismatch")

\* One operand is of an integer type and the other is floating.
Mixed(a, b) ==
    \/ a \in {TInt, TByte} /\ b = TReal
    \/ a = TReal /\ b \in {TInt, TByte}

C26_Division ==
    [][\A s \in {"/", "DIV", "MOD"} :
         MulOperatorHandleLiteral(s) =>
           LET t == expr.termExpression[1]
               selected == expr'.termOperator
               failed == expr'.error
           IN /\ s = "DIV" =>
                   /\ t \in {TInt, TByte} <=> (failed = "none" /\ selected = "divInt")
                   /\ t \notin {TInt, TByte} <=> failed = "OperatorTypeMismatch"
              /\ s = "MOD" =>
                   /\ t \in {TInt, TByte} <=> (failed = "none" /\ selected = "mod")
                   /\ t \notin {TInt, TByte} <=> failed = "OperatorTypeMismatch"
              /\ s = "/" =>
                   /\ t \in {TInt, TByte} <=> failed = "DivExpected"
                   /\ t = TReal <=> (failed = "none" /\ selected = "divReal")
                   /\ t = TSet <=> (failed = "none" /\ selected = "setSymmetricDiff")
                   /\ t \in {TBool, TCh} <=> failed = "OperatorTypeMismatch"
              /\ failed # "none" => expr'.applied = expr.applied
      ]_vars

\* After the integer quotient i DIV i, the operator "/" was refused for
\* the integer operand it follows.
C26_Witness ==
    /\ expr.error = "DivExpected"
    /\ expr.termExpression = <<TInt>>
    /\ expr.applied = <<[op |-> "divInt", left |-> TInt, right |-> TInt]>>

\* C17: a dimension expression is accepted only if its type is INTEGER, it
\* carries a compile-time constant and the constant is > 0, checked in this
\* order and failing with the type error, ConstantExpressionExpected and
\* NonPositiveArraySize; a rejected dimension is never appended, and the
\* accepted dimensions reach the array declaration in source order.
C17_Dimensions ==
    [][/\ \A e \in ArrExpressions :
            ArrayDimensionsHandleExpression(e) =>
               LET expected ==
                     IF e.type # "INTEGER" THEN "IntegerExpected"
                     ELSE IF e.const = <<>> THEN "ConstantExpressionExpected"
                     ELSE IF ~(e.const[1] > 0) THEN "NonPositiveArraySize"
                     ELSE "none"
               IN /\ arr'.error = expected
                  /\ expected # "none" => arr'.dimensions = arr.dimensions
                  /\ expected = "none" =>
                        arr'.dimensions = arr.dimensions \o <<e.const[1]>>
       /\ ArrayDimensionsEndParse => arr'.given = arr.dimensions
       /\ \A k \in 1..Len(arr'.dimensions) : arr'.dimensions[k] > 0
      ]_vars

\* Two dimensions of different sizes were accepted and handed over in the
\* order they came in.
C17_Witness ==
    /\ arr.phase = "type"
    /\ arr.given = <<1, MaxLen>>

\* A dimension of size 0 was refused after one was accepted.
C17_Refused ==
    /\ arr.error = "NonPositiveArraySize"
    /\ Len(arr.dimensions) = 1

(***************************************************************************)
(* ConstDecl: the declarations id = expression of a CONST section, one     *)
(* after the other, in one scope.  The scope maps a declared name to its   *)
(* symbol; value is <<>> for undefined.                                    *)
(***************************************************************************)
OthersConst == <<cast, forLoop, desig, fwd, unit, rec, arr, caseStmt, expr, expo, typeDecl, chain, imp, relExpr, setLit, ctrl, names, promo, heading>>

ConstNames == {"a", "b"}

\* The expressions of a constant declaration: a type, the constant value if
\* there is one, and the code.
ConstExpressions ==
    {[type |-> t, const |-> c, code |-> IF c = <<>> THEN "x" ELSE ToString(c[1])] :
        t \in {"INTEGER", "SET"}, c \in {<<>>, <<0>>, <<1>>}}

ConstStart == [phase |-> "section", id |-> "", exported |-> FALSE,
               type |-> "undefined", value |-> <<>>, scope |-> <<>>,
               ndecls |-> 0, out |-> <<>>, error |-> "none"]

\* The names a scope holds.
SymbolNames(scope) == {scope[k].id : k \in 1..Len(scope)}

\* Scope.addSymbol of js/Scope.js: TRUE when the name is bound already.
alreadyDeclared(scope, id) == id \in SymbolNames(scope)

\* ConstDecl.init and a handleIdentdef that declares the name at once.
ConstDeclHandleIdentdefDeclares(id, exported) ==
    /\ constDecl.phase = "section" /\ constDecl.error = "none"
    /\ constDecl.ndecls < MaxConsts
    /\ constDecl' = [constDecl EXCEPT !.phase = "ident", !.id = id,
                                      !.exported = exported,
                                      !.type = "undefined", !.value = <<>>,
                                      !.ndecls = @ + 1,
                                      !.scope = Append(@, [id |-> id,
                                                  exported |-> exported,
                                                  type |-> "undefined",
                                                  value |-> <<>>]),
                                      !.out = @ \o <<"var ", id, " = ">>]
    /\ UNCHANGED OthersConst

\* ConstDecl.init and ConstDecl.handleIdentdef.
ConstDeclHandleIdentdef(id, exported) ==
    /\ constDecl.phase = "section" /\ constDecl.error = "none"
    /\ constDecl.ndecls < MaxConsts
    /\ constDecl' = [constDecl EXCEPT !.phase = "ident", !.id = id,
                                      !.exported = exported,
                                      !.type = "undefined", !.value = <<>>,
                                      !.ndecls = @ + 1,
                                      !.out = @ \o <<"var ", id, " = ">>]
    /\ UNCHANGED OthersConst

\* Expression.endParse under ConstDecl, then ConstDecl.handleExpression.
ConstDeclHandleExpression(e) ==
    /\ constDecl.phase = "ident" /\ constDecl.error = "none"
    /\ LET c == [constDecl EXCEPT !.out = @ \o <<e.code>>]
       IN constDecl' =
            IF e.const = <<>> THEN [c EXCEPT !.error = "ConstantExpressionExpected"]
            ELSE [c EXCEPT !.type = e.type, !.value = e.const, !.phase = "value"]
    /\ UNCHANGED OthersConst

\* ConstDecl.endParse: the symbol is added to the current scope.
ConstDeclEndParse ==
    /\ constDecl.phase = "value" /\ constDecl.error = "none"
    /\ constDecl' =
         IF alreadyDeclared(constDecl.scope, constDecl.id)
         THEN [constDecl EXCEPT !.error = "DuplicateSymbol"]
         ELSE [constDecl EXCEPT !.phase = "section",
                                !.scope = Append(@, [id |-> constDecl.id,
                                            exported |-> constDecl.exported,
                                            type |-> constDecl.type,
                                            value |-> constDecl.value]),
                                !.out = @ \o <<";\n">>]
    /\ UNCHANGED OthersConst

InitConst == constDecl = ConstStart /\ IdleExcept("const")

NextConst ==
    \/ \E id \in ConstNames : \E x \in BOOLEAN : ConstDeclHandleIdentdef(id, x)
    \/ \E e \in ConstExpressions : ConstDeclHandleExpression(e)
    \/ ConstDeclEndParse

SpecConst == InitConst /\ [][NextConst]_vars

\* C18: a constant declaration registers its symbol only at production end
\* and only if its expression carried a compile-time constant value: an
\* expression without one fails with ConstantExpressionExpected, and the
\* declaration adds no symbol to the current scope then or before.
C18_ConstRegisteredAtEnd ==
    [][/\ constDecl.error = "none"
       /\ \A id \in ConstNames : \A x \in BOOLEAN :
            ConstDeclHandleIdentdef(id, x) => constDecl'.scope = constDecl.scope
       /\ \A e \in ConstExpressions :
            ConstDeclHandleExpression(e) =>
               /\ constDecl'.scope = constDecl.scope
               /\ e.const = <<>> <=> constDecl'.error = "ConstantExpressionExpected"
       /\ ConstDeclEndParse =>
            /\ constDecl.value # <<>>
            /\ constDecl'.error = "none" =>
                 constDecl'.scope =
                    Append(constDecl.scope,
                           [id |-> constDecl.id, exported |-> constDecl.exported,
                            type |-> constDecl.type, value |-> constDecl.value])
       /\ constDecl'.scope # constDecl.scope => ConstDeclEndParse
      ]_vars

\* The second declaration of a section failed for want of a constant value:
\* the scope holds the first declaration's name only.
C18_Witness ==
    /\ constDecl.error = "ConstantExpressionExpected"
    /\ constDecl.ndecls = 2
    /\ SymbolNames(constDecl.scope) = {"a"}
    /\ constDecl.id = "b"

(***************************************************************************)
(* exportField: a RECORD ... END whose fields may carry the export mark,   *)
(* under the context that is the parent of its RecordDecl: a type          *)
(* declaration (T = RECORD), a variable or field list declaration          *)
(* (v, w: RECORD), a pointer declaration (POINTER TO RECORD) or an array   *)
(* declaration (ARRAY n OF RECORD).  The fields are of type INTEGER, which *)
(* isTypeRecursive never refuses.                                          *)
(***************************************************************************)
OthersExport == <<cast, forLoop, desig, fwd, unit, rec, arr, caseStmt, expr, constDecl, typeDecl, chain, imp, relExpr, setLit, ctrl, names, promo, heading>>

ExportParents == {"TypeDeclaration", "VariableDeclaration", "FieldListDeclaration",
                  "PointerDecl", "ArrayDecl"}

ExportIdentNames == <<"v", "w", "u", "t">>
ExportFieldNames == <<"x", "y", "z", "r">>

ExportStart == [phase |-> "start", parent |-> "undefined", idents |-> <<>>,
                fields |-> <<>>, error |-> "none"]

\* The parent context is created.
ExportParentInit(kind) ==
    /\ expo.phase = "start"
    /\ expo' = [expo EXCEPT !.parent = kind,
                            !.phase = IF kind \in {"PointerDecl", "ArrayDecl"}
                                      THEN "type" ELSE "idents"]
    /\ UNCHANGED OthersExport

\* TypeDeclaration.handleIdentdef (one name), VariableDeclaration and
\* FieldListDeclaration.handleIdentdef (a list of names).
ExportHandleIdentdef(exported) ==
    /\ expo.phase = "idents" /\ expo.error = "none"
    /\ Len(expo.idents) < (IF expo.parent = "TypeDeclaration" THEN 1 ELSE MaxLen)
    /\ expo' = [expo EXCEPT !.idents =
                    Append(@, [id |-> ExportIdentNames[Len(expo.idents) + 1],
                               exported |-> exported])]
    /\ UNCHANGED OthersExport

\* RecordDecl.init under the parent, once its names are in.
ExportRecordDeclInit ==
    /\ expo.error = "none"
    /\ \/ expo.phase = "type"
       \/ expo.phase = "idents" /\ expo.idents # <<>>
    /\ expo' = [expo EXCEPT !.phase = "record"]
    /\ UNCHANGED OthersExport

\* A test that looks at the first identifier only.
checkIfFieldCanBeExportedFirstOnly(idents) ==
    idents # <<>> /\ ~idents[1].exported

\* checkIfFieldCanBeExported: TRUE when it throws.
checkIfFieldCanBeExported(idents) ==
    \E i \in 1..Len(idents) : ~idents[i].exported

\* parent.exportField(name) by the kind of the parent; ChainedContext has
\* no exportField, so under ArrayDecl the call is one of undefined.
exportField(kind, idents) ==
    CASE kind \in {"TypeDeclaration", "VariableDeclaration", "FieldListDeclaration"} ->
            IF checkIfFieldCanBeExported(idents) THEN "ExportViolation" ELSE "none"
      [] kind = "PointerDecl" -> "ExportViolation"
      [] OTHER -> "TypeError"

\* RecordDecl.addField, from FieldListDeclaration.endParse of the record's
\* own field list.
ExportRecordDeclAddField(exported) ==
    /\ expo.phase = "record" /\ expo.error = "none"
    /\ Len(expo.fields) < MaxLen
    /\ LET field == [id |-> ExportFieldNames[Len(expo.fields) + 1],
                     exported |-> exported]
           e == [expo EXCEPT !.fields = Append(@, field)]
       IN expo' = IF exported
                  THEN [e EXCEPT !.error = exportField(expo.parent, expo.idents)]
                  ELSE e
    /\ UNCHANGED OthersExport

\* RecordDecl.endParse.
ExportRecordDeclEndParse ==
    /\ expo.phase = "record" /\ expo.error = "none"
    /\ expo' = [expo EXCEPT !.phase = "done"]
    /\ UNCHANGED OthersExport

InitExport == expo = ExportStart /\ IdleExcept("export")

NextExport ==
    \/ \E k \in ExportParents : ExportParentInit(k)
    \/ \E x \in BOOLEAN : ExportHandleIdentdef(x)
    \/ ExportRecordDeclInit
    \/ \E x \in BOOLEAN : ExportRecordDeclAddField(x)
    \/ ExportRecordDeclEndParse

SpecExport == InitExport /\ [][NextExport]_vars

\* C19: adding an exported field to a named record type fails with
\* ExportViolation unless the type's identifier is exported; for an
\* anonymous record that is the type of variables or fields it fails unless
\* every identifier declared with that type is exported; for an anonymous
\* record that is the base of a pointer declaration it always fails.  A field
\* without the export mark is added under any of them.
C19_ExportedField ==
    [][/\ ExportRecordDeclAddField(TRUE) =>
            /\ expo.parent = "TypeDeclaration" =>
                 (expo'.error = "ExportViolation" <=> ~expo.idents[1].exported)
            /\ expo.parent \in {"VariableDeclaration", "FieldListDeclaration"} =>
                 (expo'.error = "ExportViolation"
                    <=> ~(\A i \in 1..Len(expo.idents) : expo.idents[i].exported))
            /\ expo.parent = "PointerDecl" => expo'.error = "ExportViolation"
            /\ expo.parent # "ArrayDecl" => expo'.error \in {"none", "ExportViolation"}
       /\ ExportRecordDeclAddField(FALSE) => expo'.error = "none"
      ]_vars

\* An exported field was refused in the record of v*, w: RECORD ... END,
\* whose second variable is not exported.
C19_Witness ==
    /\ expo.error = "ExportViolation"
    /\ expo.parent = "VariableDeclaration"
    /\ Len(expo.idents) = 2
    /\ expo.idents[1].exported /\ ~expo.idents[2].exported

(***************************************************************************)
(* TypeDeclaration with the contexts of its body: T = body.  stack holds   *)
(* the contexts open below the TypeDeclaration, the innermost last, each   *)
(* with typed telling whether it was given its type; bound counts the      *)
(* calls of Type.defineTypeId on the lazy type identifier of T and boundTo *)
(* is the kind of type it was bound to ("" for none).  types holds the     *)
(* kinds of the types declared before T in the section.                    *)
(***************************************************************************)
OthersTypeDecl == <<cast, forLoop, desig, fwd, unit, rec, arr, caseStmt, expr, constDecl, expo, chain, imp, relExpr, setLit, ctrl, names, promo, heading>>

TypeDeclStart == [phase |-> "ident", declared |-> FALSE, bound |-> 0,
                  boundTo |-> "", stack |-> <<>>, types |-> <<>>,
                  error |-> "none"]

TypeDeclFail(t, e) == [t EXCEPT !.error = e]

\* TypeDeclaration.handleIdentdef: the lazy type identifier is made and the
\* symbol added to the scope.
LazyTypeDeclarationHandleIdentdef ==
    /\ typeDecl.phase \in {"ident", "done"} /\ typeDecl.error = "none"
    /\ Len(typeDecl.types) + (IF typeDecl.phase = "done" THEN 1 ELSE 0) < MaxTypes
    /\ typeDecl' = [typeDecl EXCEPT !.phase = "body", !.declared = TRUE,
                                    !.bound = 0, !.boundTo = "",
                                    !.types = IF typeDecl.phase = "done"
                                              THEN Append(@, typeDecl.boundTo)
                                              ELSE @]
    /\ UNCHANGED OthersTypeDecl

RECURSIVE setTypeOn(_, _, _)

\* A PointerDecl that binds the name and hands the pointer type on as well.
pointerDeclSetTypeTwice(t, i, kind) ==
    IF kind # "Record" THEN TypeDeclFail(t, "InvalidPointerBase")
    ELSE setTypeOn([t EXCEPT !.stack[i].typed = TRUE, !.bound = @ + 1],
                   i - 1, "Pointer")

\* PointerDecl.setType and __setTypeId for the context at i.
pointerDeclSetType(t, i, kind) ==
    IF kind # "Record" THEN TypeDeclFail(t, "InvalidPointerBase")
    ELSE setTypeOn([t EXCEPT !.stack[i].typed = TRUE], i - 1, "Pointer")

\* context.setType(type) on the context at i of the stack, 0 being the
\* TypeDeclaration: TypeDeclaration.setType binds the lazy identifier,
\* ArrayDecl and FieldListDeclaration keep the type, PointerDecl makes the
\* pointer type and hands it on, and the others hand the type on as
\* ChainedContext does.
setTypeOn(t, i, kind) ==
    IF i = 0 THEN [t EXCEPT !.bound = @ + 1, !.boundTo = kind]
    ELSE CASE t.stack[i].kind \in {"ArrayDecl", "FieldListDeclaration"} ->
                [t EXCEPT !.stack[i].typed = TRUE]
           [] t.stack[i].kind = "PointerDecl" -> pointerDeclSetType(t, i, kind)
           [] OTHER -> setTypeOn(t, i - 1, kind)

\* The innermost context, or the TypeDeclaration, waits for a type.
MayTakeType ==
    /\ typeDecl.phase = "body" /\ typeDecl.error = "none"
    /\ typeDecl.stack # <<>> =>
         /\ Top(typeDecl.stack).kind \in
               {"PointerDecl", "ArrayDecl", "FieldListDeclaration"}
         /\ ~Top(typeDecl.stack).typed

TopKind == IF typeDecl.stack = <<>> THEN "TypeDeclaration"
           ELSE Top(typeDecl.stack).kind

Push(t, kind) == [t EXCEPT !.stack = Append(@, [kind |-> kind, typed |-> FALSE])]

\* RecordDecl.init: the record type is given to the parent at once.
LazyRecordDeclInit ==
    /\ MayTakeType
    /\ Len(typeDecl.stack) < MaxDepth
    /\ typeDecl' = Push(setTypeOn(typeDecl, Len(typeDecl.stack), "Record"),
                        "RecordDecl")
    /\ UNCHANGED OthersTypeDecl

\* FieldListDeclaration.init: a field list of the record being declared.
LazyFieldListDeclarationInit ==
    /\ typeDecl.phase = "body" /\ typeDecl.error = "none"
    /\ TopKind = "RecordDecl"
    /\ Len(typeDecl.stack) < MaxDepth
    /\ typeDecl' = Push(typeDecl, "FieldListDeclaration")
    /\ UNCHANGED OthersTypeDecl

\* PointerDecl.init and ArrayDecl.init.
LazyPointerOrArrayDeclInit(kind) ==
    /\ MayTakeType
    /\ TopKind # "PointerDecl"
    /\ Len(typeDecl.stack) < MaxDepth
    /\ typeDecl' = Push(typeDecl, kind)
    /\ UNCHANGED OthersTypeDecl

\* FormalParameters.init of a procedure type: the parent is asked for its
\* typeName, which ArrayDecl does not have, and given the procedure type.
LazyFormalParametersInit ==
    /\ MayTakeType
    /\ TopKind # "PointerDecl"
    /\ Len(typeDecl.stack) < MaxDepth
    /\ typeDecl' = IF TopKind = "ArrayDecl" THEN TypeDeclFail(typeDecl, "TypeError")
                   ELSE Push(setTypeOn(typeDecl, Len(typeDecl.stack), "Procedure"),
                             "FormalParameters")
    /\ UNCHANGED OthersTypeDecl

\* handleQIdent: the type is given by a name: that of the type being
\* declared (ref = 0), that of a type declared before it in the section
\* (ref its number) or INTEGER (ref = -1).
\* TypeDeclaration has no handleQIdent; ArrayDecl and FieldListDeclaration
\* have that of HandleSymbolAsType; PointerDecl has its own.
LazyHandleQIdent(ref) ==
    /\ MayTakeType
    /\ ref <= Len(typeDecl.types)
    /\ LET self == ref = 0
           kind == IF self THEN typeDecl.boundTo
                   ELSE IF ref = -1 THEN "Basic" ELSE typeDecl.types[ref]
           i == Len(typeDecl.stack)
       IN typeDecl' =
            IF self /\ ~typeDecl.declared
            THEN TypeDeclFail(typeDecl, "UndeclaredIdentifier")
            ELSE IF TopKind = "TypeDeclaration"
            THEN TypeDeclFail(typeDecl, "TypeError")
            ELSE IF TopKind = "PointerDecl"
            THEN (IF kind = "" THEN TypeDeclFail(typeDecl, "TypeError")
                  ELSE pointerDeclSetType(typeDecl, i, kind))
            ELSE setTypeOn(typeDecl, i, kind)
    /\ UNCHANGED OthersTypeDecl

\* endParse of the innermost context: ArrayDecl gives its type to the
\* parent, FormalParameters defines the procedure type, FieldListDeclaration
\* adds its fields; with the outermost the declaration is complete.
LazyEndParse ==
    /\ typeDecl.phase = "body" /\ typeDecl.error = "none"
    /\ typeDecl.stack # <<>>
    /\ TopKind \in {"PointerDecl", "ArrayDecl", "FieldListDeclaration"} =>
          Top(typeDecl.stack).typed
    /\ LET popped == [typeDecl EXCEPT !.stack = Front(@)]
           t == IF TopKind = "ArrayDecl"
                THEN setTypeOn(popped, Len(popped.stack), "Array")
                ELSE popped
       IN typeDecl' = IF t.error = "none" /\ t.stack = <<>>
                      THEN [t EXCEPT !.phase = "done"]
                      ELSE t
    /\ UNCHANGED OthersTypeDecl

InitTypeDecl == typeDecl = TypeDeclStart /\ IdleExcept("typeDecl")

NextTypeDecl ==
    \/ LazyTypeDeclarationHandleIdentdef
    \/ LazyRecordDeclInit
    \/ LazyFieldListDeclarationInit
    \/ \E k \in {"PointerDecl", "ArrayDecl"} : LazyPointerOrArrayDeclInit(k)
    \/ LazyFormalParametersInit
    \/ \E ref \in (-1)..MaxTypes : LazyHandleQIdent(ref)
    \/ LazyEndParse

SpecTypeDecl == InitTypeDecl /\ [][NextTypeDecl]_vars

C20_SelfReference ==
    /\ typeDecl.error = "none"
    /\ typeDecl.boundTo = "Record"
    /\ Len(typeDecl.stack) = 3
    /\ typeDecl.stack[3] = [kind |-> "PointerDecl", typed |-> TRUE]

(***************************************************************************)
(* The translation context chain: ChainedContext and the root Context.     *)
(*                                                                         *)
(* chain.contexts is the stack of contexts above the root, the parent      *)
(* first; position 0 is the root Context.  A context is named by its       *)
(* class; Overrides gives the methods of the ChainedContext vocabulary     *)
(* the class defines itself, every other one is inherited from             *)
(* ChainedContext and calls the same method of the parent.  A message is   *)
(* written with its class, since TypeSection.handleMessage handles         *)
(* ForwardTypeMsg only and passes any other message on.                    *)
(***************************************************************************)
OthersChain == <<cast, forLoop, desig, fwd, unit, rec, arr, caseStmt, expr, constDecl, expo, typeDecl, imp, relExpr, setLit, ctrl, names, promo, heading>>

Vocabulary ==
    {"handleMessage(ForwardTypeMsg)", "handleMessage(endCallMsg)", "language",
     "codeGenerator", "findSymbol", "currentScope", "pushScope", "popScope",
     "setType", "setDesignator", "handleExpression", "handleLiteral",
     "handleConst", "genTypeName", "qualifyScope"}

ContextClasses ==
    {"TypeDeclaration", "TypeSection", "TypeCast", "ModuleDeclaration",
     "ModuleImport"}

Overrides(class) ==
    CASE class = "TypeDeclaration" -> {"setType", "genTypeName"}
      [] class = "TypeSection" -> {"handleMessage(ForwardTypeMsg)"}
      [] class = "TypeCast" -> {}
      [] class = "ModuleDeclaration" -> {"qualifyScope"}
      [] class = "ModuleImport" -> {"handleLiteral"}

ChainStart ==
    [phase |-> "building", contexts |-> <<>>, event |-> "", at |-> 0,
     outcome |-> "", scopes |-> 0]

\* The root Context as it would be without its two empty methods.
ContextWithoutEmptyMethods(event, scopes) ==
    CASE event \in {"language", "genTypeName", "findSymbol", "currentScope",
                    "codeGenerator"} -> "answered"
      [] event = "pushScope" -> "answered"
      [] event = "popScope" -> IF scopes = 0 THEN "TypeError" ELSE "answered"
      [] OTHER -> "TypeError"

\* What a call of the method on the root Context ends in: the methods it
\* defines answer, handleExpression and handleLiteral are defined empty, and
\* a method it does not define cannot be called (TypeError); popScope
\* closes the scope it pops, which is undefined when the stack is empty.
Context(event, scopes) ==
    CASE event \in {"language", "genTypeName", "findSymbol", "currentScope",
                    "codeGenerator"} -> "answered"
      [] event = "pushScope" -> "answered"
      [] event = "popScope" -> IF scopes = 0 THEN "TypeError" ELSE "answered"
      [] event \in {"handleExpression", "handleLiteral"} -> "dropped"
      [] OTHER -> "TypeError"

\* A production is entered: a context of its class is made on top.
ChainedContextInit(class) ==
    /\ chain.phase \in {"building", "done"}
    /\ Len(chain.contexts) < MaxDepth
    /\ chain' = [chain EXCEPT !.phase = "building",
                              !.contexts = Append(@, class),
                              !.event = "", !.at = 0, !.outcome = ""]
    /\ UNCHANGED OthersChain

\* The production is left: its context is gone.
ChainedContextLeave ==
    /\ chain.phase \in {"building", "done"}
    /\ chain.contexts # <<>>
    /\ chain' = [chain EXCEPT !.phase = "building",
                              !.contexts = SubSeq(@, 1, Len(@) - 1),
                              !.event = "", !.at = 0, !.outcome = ""]
    /\ UNCHANGED OthersChain

\* A method of the vocabulary is called on the topmost context.
ChainCall(event) ==
    /\ chain.phase \in {"building", "done"}
    /\ chain.contexts # <<>>
    /\ chain' = [chain EXCEPT !.phase = "dispatch", !.event = event,
                              !.at = Len(chain.contexts), !.outcome = ""]
    /\ UNCHANGED OthersChain

\* The context the call is at defines the method: the call ends there.
ChainOwnMethod ==
    /\ chain.phase = "dispatch"
    /\ chain.at > 0
    /\ chain.event \in Overrides(chain.contexts[chain.at])
    /\ chain' = [chain EXCEPT !.phase = "done", !.outcome = "handled"]
    /\ UNCHANGED OthersChain

\* The context inherits the method of ChainedContext: this.__parent.m(...).
ChainedContextForward ==
    /\ chain.phase = "dispatch"
    /\ chain.at > 0
    /\ chain.event \notin Overrides(chain.contexts[chain.at])
    /\ chain' = [chain EXCEPT !.at = @ - 1]
    /\ UNCHANGED OthersChain

\* The call is at the root.
ContextReceive ==
    /\ chain.phase = "dispatch"
    /\ chain.at = 0
    /\ chain' = [chain EXCEPT
           !.phase = "done",
           !.outcome = Context(chain.event, chain.scopes),
           !.scopes = CASE chain.event = "pushScope" /\ @ < MaxLen -> @ + 1
                        [] chain.event = "popScope" /\ @ > 0 -> @ - 1
                        [] OTHER -> @]
    /\ UNCHANGED OthersChain

InitChain == chain = ChainStart /\ IdleExcept("chain")

NextChain ==
    \/ \E class \in ContextClasses : ChainedContextInit(class)
    \/ ChainedContextLeave
    \/ \E event \in Vocabulary : ChainCall(event)
    \/ ChainOwnMethod
    \/ ChainedContextForward
    \/ ContextReceive

SpecChain == InitChain /\ [][NextChain]_vars

\* The contexts the call has passed through without an answer.
Passed == (chain.at + 1)..Len(chain.contexts)

\* C21 as stated: a call of the vocabulary that no context on the path
\* defines goes from parent to parent to the root, and at the root it is
\* never dropped silently: it ends in a failure.
C21_RootNeverDrops ==
    (chain.phase = "done" /\ chain.at = 0
       /\ chain.event \notin {"language", "genTypeName", "findSymbol",
                              "currentScope", "pushScope", "popScope",
                              "codeGenerator"})
      => chain.outcome = "TypeError"

\* C21: a call of the ChainedContext vocabulary goes from the topmost
\* context to its parent, one parent at a time, and ends at the nearest
\* context that defines the method, or at the root when none on the path
\* does.  At the root a completed expression and a literal are dropped
\* silently; a message, setType, setDesignator, handleConst and
\* qualifyScope end in a failure; the queries the root defines are answered
\* (popScope fails on an empty scope stack).
C21_DefaultBubble ==
    chain.phase \in {"dispatch", "done"} =>
      /\ chain.at \in 0..Len(chain.contexts)
      /\ \A i \in Passed :
           i # chain.at => chain.event \notin Overrides(chain.contexts[i])
      /\ (chain.phase = "done" /\ chain.at > 0) =>
           /\ chain.event \in Overrides(chain.contexts[chain.at])
           /\ chain.outcome = "handled"
      /\ (chain.phase = "done" /\ chain.at = 0) =>
           /\ chain.event \in {"handleExpression", "handleLiteral"}
                <=> chain.outcome = "dropped"
           /\ chain.event \in {"handleMessage(ForwardTypeMsg)",
                               "handleMessage(endCallMsg)", "setType",
                               "setDesignator", "handleConst", "qualifyScope"}
                => chain.outcome = "TypeError"
           /\ chain.outcome = "TypeError" =>
                chain.event \in {"handleMessage(ForwardTypeMsg)",
                                 "handleMessage(endCallMsg)", "setType",
                                 "setDesignator", "handleConst",
                                 "qualifyScope", "popScope"}

\* A literal went up through three contexts that do not define
\* handleLiteral and was dropped at the root.
C21_Witness ==
    /\ chain.phase = "done"
    /\ Len(chain.contexts) = 3
    /\ chain.at = 0
    /\ chain.event = "handleLiteral"
    /\ chain.outcome = "dropped"

(***************************************************************************)
(* ModuleImport: the import list of a module, IMPORT M, A := N, ... ;      *)
(* and the part of ModuleDeclaration it calls at its end.                  *)
(*                                                                         *)
(* import is ModuleImport.__import as the sequence of its <<alias,         *)
(* module>> entries in the order they were added (the order for..in goes   *)
(* through them), "" is undefined, name is the name of the importing       *)
(* module and known the modules language.moduleResolver finds.  entry is   *)
(* the <<alias, module>> __handleImport was last called for, symbols the   *)
(* aliases added to the module scope and out the text written.             *)
(***************************************************************************)
OthersImport == <<cast, forLoop, desig, fwd, unit, rec, arr, caseStmt, expr, constDecl, expo, typeDecl, chain, relExpr, setLit, ctrl, names, promo, heading>>

ImportIdents == {"A", "B", "M", "JS"}

ImportStart(known) ==
    [phase |-> "start", name |-> "M", known |-> known, import |-> <<>>,
     currentModule |-> "", currentAlias |-> "", entry |-> <<>>,
     symbols |-> {}, out |-> <<>>, unresolved |-> <<>>, error |-> "none"]

\* A search for a conflict that looks at all the aliases before any module.
conflictAliasesFirst(import, alias, module) ==
    IF \E k \in 1..Len(import) : import[k][1] = alias
    THEN "DuplicatedImportAlias"
    ELSE IF \E k \in 1..Len(import) : import[k][2] = module
    THEN "ModuleAlreadyImported"
    ELSE "none"

\* The loop of __handleImport (lines 1981-1986): the entries in order, for
\* each one the alias first, then the module.
RECURSIVE conflict(_, _, _)
conflict(import, alias, module) ==
    IF import = <<>> THEN "none"
    ELSE IF Head(import)[1] = alias THEN "DuplicatedImportAlias"
    ELSE IF Head(import)[2] = module THEN "ModuleAlreadyImported"
    ELSE conflict(Tail(import), alias, module)

\* ModuleImport.__handleImport.
handleImport(i) ==
    LET alias == IF i.currentAlias = "" THEN i.currentModule ELSE i.currentAlias
        c == conflict(i.import, alias, i.currentModule)
        j == [i EXCEPT !.currentAlias = "", !.entry = <<alias, i.currentModule>>]
    IN IF c # "none" THEN [j EXCEPT !.error = c]
       ELSE [j EXCEPT !.import = Append(@, <<alias, i.currentModule>>)]

\* A module lookup that lets a module import itself.
findModuleAny(i, name) ==
    IF name = "JS" \/ name \in i.known THEN "found" ELSE "notFound"

\* ModuleDeclaration.findModule over Context.findModule: the module's own
\* name is refused, JS is always there, any other name is the resolver's.
findModule(i, name) ==
    IF name = i.name THEN "SelfImport"
    ELSE IF name = "JS" \/ name \in i.known THEN "found" ELSE "notFound"

\* The module names of the entries findModule does not find, in order.
RECURSIVE unresolvedOf(_, _)
unresolvedOf(i, import) ==
    IF import = <<>> THEN <<>>
    ELSE (IF findModule(i, Head(import)[2]) = "notFound"
          THEN <<Head(import)[2]>> ELSE <<>>) \o unresolvedOf(i, Tail(import))

\* ModuleImport.handleIdent: a module name, or the alias before ":=".
ModuleImportHandleIdent(id) ==
    /\ imp.phase \in {"start", "next", "alias"}
    /\ imp.error = "none"
    /\ imp.phase # "alias" => Len(imp.import) < MaxNames
    /\ imp' = [imp EXCEPT !.currentModule = id,
                          !.phase = IF imp.phase = "alias" THEN "module" ELSE "ident"]
    /\ UNCHANGED OthersImport

\* ModuleImport.handleLiteral: ":=" makes the identifier before it the
\* alias, "," ends an entry.
ModuleImportHandleLiteral(s) ==
    /\ imp.error = "none"
    /\ \/ s = ":=" /\ imp.phase = "ident"
       \/ s = "," /\ imp.phase \in {"ident", "module"}
    /\ imp' = IF s = ":="
              THEN [imp EXCEPT !.currentAlias = imp.currentModule, !.phase = "alias"]
              ELSE [handleImport(imp) EXCEPT !.phase = "next"]
    /\ UNCHANGED OthersImport

\* ModuleImport.endParse with ModuleDeclaration.findModule and
\* ModuleDeclaration.handleImport: the last entry is taken, every module is
\* looked up, and the symbols are added and the prolog written.
ModuleImportEndParse ==
    /\ imp.phase \in {"start", "ident", "module"}
    /\ imp.error = "none"
    /\ LET i == IF imp.currentModule # "" THEN handleImport(imp) ELSE imp
           self == \E k \in 1..Len(i.import) :
                       findModule(i, i.import[k][2]) = "SelfImport"
           unresolved == unresolvedOf(i, i.import)
       IN imp' =
            IF i.error # "none" THEN [i EXCEPT !.phase = "done"]
            ELSE IF self THEN [i EXCEPT !.phase = "done", !.error = "SelfImport"]
            ELSE IF unresolved # <<>>
            THEN [i EXCEPT !.phase = "done", !.error = "ModuleNotFound",
                           !.unresolved = unresolved]
            ELSE [i EXCEPT !.phase = "done",
                           !.symbols = {i.import[k][1] : k \in 1..Len(i.import)},
                           !.out = <<"prolog">>]
    /\ UNCHANGED OthersImport

InitImport ==
    /\ \E known \in SUBSET {"A", "B"} : imp = ImportStart(known)
    /\ IdleExcept("import")

NextImport ==
    \/ \E id \in ImportIdents : ModuleImportHandleIdent(id)
    \/ \E s \in {":=", ","} : ModuleImportHandleLiteral(s)
    \/ ModuleImportEndParse

SpecImport == InitImport /\ [][NextImport]_vars

\* The entries of the map with the alias, or with the module, of the entry
\* handled last.
SameAlias == {k \in 1..Len(imp.import) : imp.import[k][1] = imp.entry[1]}
SameModule == {k \in 1..Len(imp.import) : imp.import[k][2] = imp.entry[2]}

ImportRefused == imp.error \in {"DuplicatedImportAlias", "ModuleAlreadyImported"}

\* C24 as stated: an entry whose alias is that of an earlier entry fails
\* with DuplicatedImportAlias, and an entry whose module was imported under
\* another alias fails with module already imported (read with the alias
\* first for an entry that is both).
C24_ErrorByKind ==
    ImportRefused =>
      /\ SameAlias # {} => imp.error = "DuplicatedImportAlias"
      /\ (SameAlias = {} /\ SameModule # {})
           => imp.error = "ModuleAlreadyImported"

\* C24: after any sequence of import entries the map of aliases to modules
\* is injective in both directions; an entry that shares its alias or its
\* module with an earlier entry fails and is not added, and the error is
\* decided by the first earlier entry it is in conflict with:
\* DuplicatedImportAlias when that entry has the same alias, module
\* already imported when it only has the same module.
C24_ImportMap ==
    /\ [](imp.phase # "idle" =>
            /\ \A j, k \in 1..Len(imp.import) :
                 j # k => /\ imp.import[j][1] # imp.import[k][1]
                          /\ imp.import[j][2] # imp.import[k][2]
            /\ ImportRefused =>
                 /\ SameAlias \cup SameModule # {}
                 /\ LET first == CHOOSE k \in SameAlias \cup SameModule :
                                   \A j \in SameAlias \cup SameModule : k <= j
                    IN imp.error = "DuplicatedImportAlias" <=> first \in SameAlias
            /\ (imp.entry # <<>> /\ ~ImportRefused) =>
                 imp.import[Len(imp.import)] = imp.entry)
    /\ [][(imp'.error \in {"DuplicatedImportAlias", "ModuleAlreadyImported"}
             /\ imp.error = "none")
            => (imp'.import = imp.import
                  /\ (SameAlias \cup SameModule # {})')]_vars

\* IMPORT A := M, B := JS, B := M: the third entry has the alias of the
\* second and the module of the first, and is refused for the module.
C24_Witness ==
    /\ imp.import = << <<"A", "M">>, <<"B", "JS">> >>
    /\ imp.entry = <<"B", "M">>
    /\ imp.error = "ModuleAlreadyImported"

\* The modules and the aliases of the import map.
ImportedModules == {imp.import[k][2] : k \in 1..Len(imp.import)}
ImportedAliases == {imp.import[k][1] : k \in 1..Len(imp.import)}

\* The modules module lookup has no answer for.
NotFound == {m \in ImportedModules : m # "JS" /\ m \notin imp.known}

\* C25: at the end of an import list whose entries were all accepted, the
\* resolution fails with SelfImport if any imported module is the importing
\* module itself; otherwise, if module lookup does not find some module, it
\* fails with ModuleNotFound listing every unresolved name; in both
\* failures no import symbol is added to the module scope and no prolog is
\* written; on success every alias is added to the module scope and the
\* prolog is written.
C25_ImportResolution ==
    /\ imp.phase \notin {"idle", "done"} => (imp.symbols = {} /\ imp.out = <<>>)
    /\ (imp.phase = "done" /\ ~ImportRefused) =>
         /\ imp.error = "SelfImport" <=> imp.name \in ImportedModules
         /\ imp.error = "ModuleNotFound"
              <=> (imp.name \notin ImportedModules /\ NotFound # {})
         /\ imp.error = "ModuleNotFound" =>
              /\ SeqToSet(imp.unresolved) = NotFound
              /\ Len(imp.unresolved) = Cardinality(NotFound)
         /\ imp.error # "none" => (imp.symbols = {} /\ imp.out = <<>>)
         /\ imp.error = "none" =>
              (imp.symbols = ImportedAliases /\ imp.out = <<"prolog">>)

\* IMPORT A, JS, B (or JS under an alias) with neither A nor B found: the failure lists A and
\* B, and nothing was added or written.
C25_Witness ==
    /\ imp.phase = "done"
    /\ imp.error = "ModuleNotFound"
    /\ imp.unresolved = <<"A", "B">>
    /\ Len(imp.import) = 3
    /\ imp.symbols = {}

(***************************************************************************)
(* Expression: simpleExpression [relation simpleExpression], with          *)
(* relationOp and RelationOps.                                             *)
(*                                                                         *)
(* An operand is kept as its type.  expression is <<>> for undefined, else *)
(* <<type>>; op is the operation of js/Operator.js relationOp selected, "" *)
(* for undefined, and type the type it was selected for.  Whether the      *)
(* types of two operands match (Cast.areTypesMatch, not part of this       *)
(* file) comes with the right operand.                                     *)
(***************************************************************************)
OthersRel == <<cast, forLoop, desig, fwd, unit, rec, arr, caseStmt, expr, constDecl, expo, typeDecl, chain, imp, setLit, ctrl, names, promo, heading>>

TProc == [kind |-> "Procedure"]
TNil == [kind |-> "Nil"]

RelTypes ==
    {TInt, TByte, TBool, TCh, TReal, TSet, StringType(1), StringType(2), TPtr,
     TProc, TNil}

Relations == {"=", "#", "<", ">", "<=", ">=", "IN"}

RelStart == [phase |-> "start", expression |-> <<>>, relation |-> "",
             op |-> "", type |-> <<>>, error |-> "none",
             written |-> 0, parentOut |-> <<>>, received |-> <<>>]

\* The type of the call of a procedure that returns no result: undefined.
TNoResult == [kind |-> "undefined"]

\* Type.isString for the types of the model: a string literal.
isString(t) == t.kind = "String"

\* useIntOrderOp.
useIntOrderOp(t) == isInt(t) \/ t = TCh

\* useIntEqOp.
useIntEqOp(t) ==
    \/ isInt(t) \/ t = TBool \/ t = TCh
    \/ t.kind = "Pointer" \/ t.kind = "Procedure" \/ t = TNil

\* An ordering that is there for every type the identity comparison is.
lessAsEq(type) ==
    CASE useIntEqOp(type) -> "lessInt"
      [] isString(type) -> "lessStr"
      [] type = TReal -> "lessReal"
      [] OTHER -> ""

\* RelationOps.eq, notEq, less, greater, lessEq and greaterEq.
eq(type) ==
    CASE useIntEqOp(type) -> "equalInt"
      [] isString(type) -> "equalStr"
      [] type = TReal -> "equalReal"
      [] type = TSet -> "equalSet"
      [] OTHER -> ""

notEq(type) ==
    CASE useIntEqOp(type) -> "notEqualInt"
      [] isString(type) -> "notEqualStr"
      [] type = TReal -> "notEqualReal"
      [] type = TSet -> "notEqualSet"
      [] OTHER -> ""

less(type) ==
    CASE useIntOrderOp(type) -> "lessInt"
      [] isString(type) -> "lessStr"
      [] type = TReal -> "lessReal"
      [] OTHER -> ""

greater(type) ==
    CASE useIntOrderOp(type) -> "greaterInt"
      [] isString(type) -> "greaterStr"
      [] type = TReal -> "greaterReal"
      [] OTHER -> ""

lessEq(type) ==
    CASE useIntOrderOp(type) -> "eqLessInt"
      [] isString(type) -> "eqLessStr"
      [] type = TReal -> "eqLessReal"
      [] type = TSet -> "setInclL"
      [] OTHER -> ""

greaterEq(type) ==
    CASE useIntOrderOp(type) -> "eqGreaterInt"
      [] isString(type) -> "eqGreaterStr"
      [] type = TReal -> "eqGreaterReal"
      [] type = TSet -> "setInclR"
      [] OTHER -> ""

\* promoteTypeInExpression: a string of one character beside a CHAR is
\* taken as the character.
\* Type.stringAsChar of js/Types.js: a string of exactly one character can
\* stand for that character.
stringAsChar(t) == t.length = 1

\* A promotion that does not look at the type that is required.
promoteTypeInExpressionAnywhere(fromType, type) ==
    IF isString(fromType) /\ stringAsChar(fromType) THEN TCh
    ELSE fromType

promoteTypeInExpression(fromType, type) ==
    IF type = TCh /\ isString(fromType) /\ stringAsChar(fromType) THEN TCh
    ELSE fromType

\* RelationOps.coalesceType: <<type>>, or <<>> when checkTypeMatch throws.
\* Two pointers that are related give the one that is the base of the
\* other; with the one pointer type of the model that is the left type.
coalesceType(leftType, rightType, match) ==
    IF leftType.kind = "Pointer" /\ rightType.kind = "Pointer" /\ match
    THEN <<leftType>>
    ELSE IF isString(leftType) /\ isString(rightType) THEN <<leftType>>
    ELSE IF ~match THEN <<>>
    ELSE <<leftType>>

\* relationOp for the relations other than IS: the state with the
\* operation selected, or with the error thrown.
relationOp(x, leftType, rightType, literal, match) ==
    LET type == IF literal = "IN"
                THEN (IF ~isInt(leftType) THEN <<>>
                      ELSE IF implicitCastFails(rightType, TSet) THEN <<>>
                      ELSE <<"undefined">>)
                ELSE coalesceType(leftType, rightType, match)
        o == CASE literal = "=" -> eq(type[1])
               [] literal = "#" -> notEq(type[1])
               [] literal = "<" -> less(type[1])
               [] literal = ">" -> greater(type[1])
               [] literal = "<=" -> lessEq(type[1])
               [] literal = ">=" -> greaterEq(type[1])
               [] OTHER -> "setHasBit"
    IN IF type = <<>>
       THEN [x EXCEPT !.error = IF literal = "IN" /\ ~isInt(leftType)
                                THEN "IntegerExpected" ELSE "TypeMismatch"]
       ELSE IF o = "" THEN [x EXCEPT !.error = "OperatorTypeMismatch",
                                     !.type = type]
       ELSE [x EXCEPT !.op = o, !.type = type, !.expression = <<TBool>>]

\* Expression.handleSimpleExpression: the first operand is kept, the
\* second one is combined with it by the operation of the relation.
ExpressionHandleSimpleExpression(t, match) ==
    /\ relExpr.phase \in {"start", "relation"}
    /\ relExpr.error = "none"
    /\ relExpr.phase = "start" => match
    /\ relExpr.expression # <<TNoResult>>
    /\ relExpr' =
         IF relExpr.expression = <<>>
         THEN [relExpr EXCEPT !.expression = <<t>>, !.phase = "left"]
         ELSE LET left == promoteTypeInExpression(relExpr.expression[1], t)
                  right == promoteTypeInExpression(t, left)
              IN [relationOp(relExpr, left, right, relExpr.relation, match)
                    EXCEPT !.phase = "done"]
    /\ UNCHANGED OthersRel

\* Expression.handleLiteral: the relation.
ExpressionHandleLiteral(relation) ==
    /\ relExpr.phase = "left"
    /\ relExpr.expression # <<TNoResult>>
    /\ relExpr' = [relExpr EXCEPT !.relation = relation, !.phase = "relation"]
    /\ UNCHANGED OthersRel

\* Expression.handleSimpleExpression for the call of a procedure that
\* returns no result, standing alone as the expression.
ExpressionHandleProcedureCall ==
    /\ relExpr.phase = "start"
    /\ relExpr' = [relExpr EXCEPT !.expression = <<TNoResult>>, !.phase = "left"]
    /\ UNCHANGED OthersRel

\* A context that hands on the code generator of its parent.
codeGeneratorOfParent == "parent"

\* Expression.codeGenerator.
codeGenerator == "nullCodeGenerator"

\* write on the generator a context below the Expression context gets from
\* codeGenerator(); written counts the calls.
SubContextWrite ==
    /\ relExpr.phase \in {"start", "left", "relation", "done"}
    /\ relExpr.error = "none"
    /\ relExpr.written < MaxLen
    /\ relExpr' = IF codeGenerator = "nullCodeGenerator"
                  THEN [relExpr EXCEPT !.written = @ + 1]
                  ELSE [relExpr EXCEPT !.written = @ + 1,
                                       !.parentOut = Append(@, "s")]
    /\ UNCHANGED OthersRel

\* Expression.endParse: the code of the expression is written to the code
\* generator of the parent, then the parent gets the expression; received
\* holds, for each expression the parent got, the length of the text of
\* its generator at that moment.
ExpressionEndParse ==
    /\ relExpr.phase \in {"left", "done"}
    /\ relExpr.error = "none"
    /\ relExpr' =
         IF relExpr.expression = <<TNoResult>>
         THEN [relExpr EXCEPT !.error = "NoResultInExpression"]
         ELSE LET out == Append(relExpr.parentOut, "e")
              IN [relExpr EXCEPT !.phase = "ended", !.parentOut = out,
                                 !.received = Append(@, Len(out))]
    /\ UNCHANGED OthersRel

InitRel == relExpr = RelStart /\ IdleExcept("relation")

NextRel ==
    \/ \E t \in RelTypes, match \in BOOLEAN : ExpressionHandleSimpleExpression(t, match)
    \/ \E relation \in Relations : ExpressionHandleLiteral(relation)
    \/ ExpressionHandleProcedureCall
    \/ SubContextWrite
    \/ ExpressionEndParse

SpecRel == InitRel /\ [][NextRel]_vars

\* The types = and # compare by identity.
IdentityTypes == {TInt, TByte, TBool, TCh, TPtr, TProc, TNil}

\* C27: by the coalesced type of the operands, = and # resolve to the
\* identity comparison for the integer, boolean, character, pointer,
\* procedure and NIL types and to operations of their own for string,
\* floating and set types; < and > fail with OperatorTypeMismatch for
\* boolean, pointer, procedure and set; <= and >= fail with it for boolean,
\* pointer and procedure and resolve for sets to the inclusions (subset for
\* <=, superset for >=).
C27_RelationByType ==
    (relExpr.phase = "done" /\ relExpr.relation # "IN" /\ relExpr.type # <<>>) =>
      LET t == relExpr.type[1]
          r == relExpr.relation
          selected(o) == relExpr.error = "none" /\ relExpr.op = o
          mismatch == relExpr.error = "OperatorTypeMismatch" /\ relExpr.op = ""
      IN /\ r = "=" =>
              /\ t \in IdentityTypes => selected("equalInt")
              /\ t.kind = "String" => selected("equalStr")
              /\ t = TReal => selected("equalReal")
              /\ t = TSet => selected("equalSet")
         /\ r = "#" =>
              /\ t \in IdentityTypes => selected("notEqualInt")
              /\ t.kind = "String" => selected("notEqualStr")
              /\ t = TReal => selected("notEqualReal")
              /\ t = TSet => selected("notEqualSet")
         /\ r \in {"<", ">"} => (t \in {TBool, TPtr, TProc, TSet} => mismatch)
         /\ r \in {"<=", ">="} => (t \in {TBool, TPtr, TProc} => mismatch)
         /\ (r = "<=" /\ t = TSet) => selected("setInclL")
         /\ (r = ">=" /\ t = TSet) => selected("setInclR")

\* Two sets were compared with <= and the subset test was selected.
C27_Witness ==
    /\ relExpr.phase = "done"
    /\ relExpr.relation = "<="
    /\ relExpr.type = <<TSet>>
    /\ relExpr.op = "setInclL"

(***************************************************************************)
(* Set and SetElement: the set literal {e, from..to, ...}.                 *)
(*                                                                         *)
(* An expression is its code and its constant, <<>> for none.  value is    *)
(* Set.__value as the set of the bits that are 1 in the 32-bit integer     *)
(* (1 << i sets the bit i modulo 32), expr is Set.__expr as text tokens,   *)
(* the fields from, fromValue, to and toValue are those of the open        *)
(* SetElement, "" and <<>> for undefined, and elements lists the elements  *)
(* handed to the set so far.                                               *)
(***************************************************************************)
OthersSet == <<cast, forLoop, desig, fwd, unit, rec, arr, caseStmt, expr, constDecl, expo, typeDecl, chain, imp, relExpr, ctrl, names, promo, heading>>

SetExpressions ==
    {[code |-> "0", const |-> <<0>>], [code |-> "2", const |-> <<2>>],
     [code |-> "33", const |-> <<33>>], [code |-> "x", const |-> <<>>],
     [code |-> "y", const |-> <<>>]}

SetStart ==
    [phase |-> "open", value |-> {}, expr |-> <<>>, from |-> "",
     fromValue |-> <<>>, to |-> "", toValue |-> <<>>, elements |-> <<>>,
     result |-> <<>>]

\* The bits 1 << i sets, for i from a to b.
Bits(a, b) == {i % 32 : i \in a..b}

\* A handleElement that puts the text of an element before the text of
\* the elements that came earlier.
handleElementPrepends(s, from, fromValue, to, toValue) ==
    IF fromValue # <<>> /\ (to = "" \/ toValue # <<>>)
    THEN [s EXCEPT !.value = @ \cup (IF to # "" THEN Bits(fromValue[1], toValue[1])
                                     ELSE Bits(fromValue[1], fromValue[1]))]
    ELSE [s EXCEPT !.expr = (IF to # "" THEN <<"[", from, ", ", to, "]">>
                             ELSE <<from>>)
                            \o (IF @ # <<>> THEN <<", ">> ELSE <<>>) \o @]

\* Set.handleElement.
handleElement(s, from, fromValue, to, toValue) ==
    IF fromValue # <<>> /\ (to = "" \/ toValue # <<>>)
    THEN [s EXCEPT !.value = @ \cup (IF to # "" THEN Bits(fromValue[1], toValue[1])
                                     ELSE Bits(fromValue[1], fromValue[1]))]
    ELSE [s EXCEPT !.expr = @ \o (IF @ # <<>> THEN <<", ">> ELSE <<>>)
                              \o (IF to # "" THEN <<"[", from, ", ", to, "]">>
                                  ELSE <<from>>)]

\* SetElement.handleExpression: the first expression of an element is its
\* from, the second one its to; the code is what the expression wrote to
\* the generator of the element.
SetElementHandleExpression(e) ==
    /\ \/ setLit.phase = "open" /\ Len(setLit.elements) < MaxLen
       \/ setLit.phase = "from"
    /\ setLit' = IF setLit.from = ""
                 THEN [setLit EXCEPT !.from = e.code, !.fromValue = e.const,
                                     !.phase = "from"]
                 ELSE [setLit EXCEPT !.to = e.code, !.toValue = e.const,
                                     !.phase = "to"]
    /\ UNCHANGED OthersSet

\* SetElement.endParse: the element goes to Set.handleElement.
SetElementEndParse ==
    /\ setLit.phase \in {"from", "to"}
    /\ LET s == handleElement(setLit, setLit.from, setLit.fromValue, setLit.to,
                              setLit.toValue)
       IN setLit' = [s EXCEPT !.phase = "open", !.from = "", !.fromValue = <<>>,
                              !.to = "", !.toValue = <<>>,
                              !.elements = Append(@, [from |-> setLit.from,
                                                      fromValue |-> setLit.fromValue,
                                                      to |-> setLit.to,
                                                      toValue |-> setLit.toValue])]
    /\ UNCHANGED OthersSet

\* Set.endParse: a set constant goes to handleConst, else the call of
\* rtl.makeSet, with " | " and the constant bits if there are any, goes to
\* handleFactor.
SetEndParse ==
    /\ setLit.phase = "open"
    /\ setLit' =
         [setLit EXCEPT
            !.phase = "done",
            !.result = IF setLit.expr = <<>>
                       THEN <<[to |-> "handleConst", const |-> <<setLit.value>>,
                               makeSet |-> <<>>, or |-> <<>>]>>
                       ELSE <<[to |-> "handleFactor", const |-> <<>>,
                               makeSet |-> <<setLit.expr>>,
                               or |-> IF setLit.value # {} THEN <<setLit.value>>
                                      ELSE <<>>]>>]
    /\ UNCHANGED OthersSet

InitSet == setLit = SetStart /\ IdleExcept("set")

NextSet ==
    \/ \E e \in SetExpressions : SetElementHandleExpression(e)
    \/ SetElementEndParse
    \/ SetEndParse

SpecSet == InitSet /\ [][NextSet]_vars

\* The element is a compile-time constant: a constant, or a range with
\* both bounds constant.
ConstElement(el) == el.fromValue # <<>> /\ (el.to = "" \/ el.toValue # <<>>)

\* The bits of the constant elements among els.
ConstBits(els) ==
    UNION {IF el.to = "" THEN {el.fromValue[1] % 32}
           ELSE {i % 32 : i \in el.fromValue[1]..el.toValue[1]} :
             el \in {x \in SeqToSet(els) : ConstElement(x)}}

\* The argument text of the set builder for the elements that are not
\* constant, in the order of els.
RECURSIVE BuilderArguments(_)
BuilderArguments(els) ==
    IF els = <<>> THEN <<>>
    ELSE LET el == Head(els)
             rest == BuilderArguments(Tail(els))
             text == IF el.to = "" THEN <<el.from>>
                     ELSE <<"[", el.from, ", ", el.to, "]">>
         IN IF ConstElement(el) THEN rest
            ELSE IF rest = <<>> THEN text
            ELSE text \o <<", ">> \o rest

\* C28: when every element of a set literal is a compile-time constant the
\* result is a set constant with the bit of every single element and of
\* every i of every range from..to, and no call of the set builder is
\* made; when some element or bound is not constant the result is an
\* expression, not a constant: one call of the set builder over the
\* elements and ranges that are not constant, in source order, combined by
\* | with the constant bits when there are any.
C28_SetLiteral ==
    setLit.phase = "done" =>
      LET els == setLit.elements
          r == setLit.result[1]
      IN IF \A k \in 1..Len(els) : ConstElement(els[k])
         THEN /\ r.to = "handleConst"
              /\ r.const = <<ConstBits(els)>>
              /\ r.makeSet = <<>>
         ELSE /\ r.to = "handleFactor"
              /\ r.const = <<>>
              /\ r.makeSet = <<BuilderArguments(els)>>
              /\ r.or = IF ConstBits(els) # {} THEN <<ConstBits(els)>> ELSE <<>>

\* {x, y..2}: neither element is constant, and the set builder gets x and
\* then the range.
C28_Witness ==
    /\ setLit.phase = "done"
    /\ setLit.result[1].makeSet = << <<"x", ", ", "[", "y", ", ", "2", "]">> >>
    /\ setLit.result[1].or = <<>>

(***************************************************************************)
(* If, While, Repeat with Until, and the expression of Case: the           *)
(* statements with a controlling expression.                               *)
(*                                                                         *)
(* An expression is kept as the name of its type, String1 and String2      *)
(* being string literals of one and of two characters.  kind is the        *)
(* context that is open, out the text written to the code generator of     *)
(* the statement ("{" and "}" for openScope and closeScope), and nexpr     *)
(* counts the controlling expressions handled.                             *)
(***************************************************************************)
OthersCtrl == <<cast, forLoop, desig, fwd, unit, rec, arr, caseStmt, expr, constDecl, expo, typeDecl, chain, imp, relExpr, setLit, names, promo, heading>>

CtrlTypes ==
    {"BOOLEAN", "INTEGER", "BYTE", "CHAR", "REAL", "SET", "String1", "String2"}

CtrlStart == [kind |-> "none", phase |-> "statement", out |-> <<>>,
              nexpr |-> 0, type |-> "undefined", error |-> "none",
              stack |-> <<>>]

\* A statement begins inside the statement that is open: that one waits on
\* the stack, with the length of the text written before the new one.
Enter(c, kind, phase, text) ==
    [c EXCEPT !.stack = Append(@, [kind |-> c.kind, phase |-> c.phase,
                                   mark |-> Len(c.out)]),
              !.kind = kind, !.phase = phase, !.out = @ \o text]

\* A statement ends: the one around it goes on.
Leave(c, text) ==
    [c EXCEPT !.kind = Top(c.stack).kind, !.phase = Top(c.stack).phase,
              !.stack = Front(@), !.out = @ \o text]

\* A condition check that lets every type pass.
handleIfExpressionAny(type) == FALSE

\* handleIfExpression: TRUE when it throws.
handleIfExpression(type) == type # "BOOLEAN"

\* A statement may begin, and one more expression may come.
StatementMayBegin ==
    /\ ctrl.phase \in {"statement", "body", "else"} /\ ctrl.error = "none"
    /\ ctrl.nexpr < MaxConditions
    /\ Len(ctrl.stack) < MaxNesting

ConditionMayCome(kind) ==
    /\ ctrl.kind = kind /\ ctrl.phase = "condition" /\ ctrl.error = "none"

\* If.init.
IfInit ==
    /\ StatementMayBegin
    /\ ctrl' = Enter(ctrl, "If", "condition", <<"if (">>)
    /\ UNCHANGED OthersCtrl

\* If.handleExpression.
IfHandleExpression(type) ==
    /\ ConditionMayCome("If")
    /\ ctrl' = IF handleIfExpression(type)
               THEN [ctrl EXCEPT !.error = "BooleanExpected"]
               ELSE [ctrl EXCEPT !.out = @ \o <<")", "{">>, !.phase = "body",
                                 !.nexpr = @ + 1]
    /\ UNCHANGED OthersCtrl

\* If.handleLiteral: ELSIF and ELSE (THEN and END write nothing).
IfHandleLiteral(s) ==
    /\ ctrl.kind = "If" /\ ctrl.phase = "body" /\ ctrl.error = "none"
    /\ s = "ELSIF" => ctrl.nexpr < MaxConditions
    /\ ctrl' = IF s = "ELSIF"
               THEN [ctrl EXCEPT !.out = @ \o <<"}", "else if (">>,
                                 !.phase = "condition"]
               ELSE [ctrl EXCEPT !.out = @ \o <<"}", "else ", "{">>,
                                 !.phase = "else"]
    /\ UNCHANGED OthersCtrl

\* If.endParse.
IfEndParse ==
    /\ ctrl.kind = "If" /\ ctrl.phase \in {"body", "else"} /\ ctrl.error = "none"
    /\ ctrl' = Leave(ctrl, <<"}">>)
    /\ UNCHANGED OthersCtrl

\* While.init.
WhileInit ==
    /\ StatementMayBegin
    /\ ctrl' = Enter(ctrl, "While", "condition", <<"while (true)", "{", "if (">>)
    /\ UNCHANGED OthersCtrl

\* While.handleExpression.
WhileHandleExpression(type) ==
    /\ ConditionMayCome("While")
    /\ ctrl' = IF handleIfExpression(type)
               THEN [ctrl EXCEPT !.error = "BooleanExpected"]
               ELSE [ctrl EXCEPT !.out = @ \o <<")", "{">>, !.phase = "body",
                                 !.nexpr = @ + 1]
    /\ UNCHANGED OthersCtrl

\* While.handleLiteral: ELSIF.
WhileHandleLiteral ==
    /\ ctrl.kind = "While" /\ ctrl.phase = "body" /\ ctrl.error = "none"
    /\ ctrl.nexpr < MaxConditions
    /\ ctrl' = [ctrl EXCEPT !.out = @ \o <<"}", "else if (">>,
                            !.phase = "condition"]
    /\ UNCHANGED OthersCtrl

\* While.endParse.
WhileEndParse ==
    /\ ctrl.kind = "While" /\ ctrl.phase = "body" /\ ctrl.error = "none"
    /\ ctrl' = Leave(ctrl, <<"}", " else break;\n", "}">>)
    /\ UNCHANGED OthersCtrl

\* Repeat.init.
RepeatInit ==
    /\ StatementMayBegin
    /\ ctrl' = Enter(ctrl, "Repeat", "body", <<"do ", "{">>)
    /\ UNCHANGED OthersCtrl

\* Until.init: the body of the REPEAT is closed.
UntilInit ==
    /\ ctrl.kind = "Repeat" /\ ctrl.phase = "body" /\ ctrl.error = "none"
    /\ ctrl' = [ctrl EXCEPT !.kind = "Until", !.phase = "condition",
                            !.out = @ \o <<"}", " while (">>]
    /\ UNCHANGED OthersCtrl

\* Until.handleExpression: the negated condition is written.
UntilHandleExpression(type) ==
    /\ ConditionMayCome("Until")
    /\ ctrl' = IF handleIfExpression(type)
               THEN [ctrl EXCEPT !.error = "BooleanExpected"]
               ELSE [ctrl EXCEPT !.out = @ \o <<"!", "e">>, !.phase = "until",
                                 !.nexpr = @ + 1]
    /\ UNCHANGED OthersCtrl

\* Until.endParse.
UntilEndParse ==
    /\ ctrl.kind = "Until" /\ ctrl.phase = "until" /\ ctrl.error = "none"
    /\ ctrl' = Leave(ctrl, <<");\n">>)
    /\ UNCHANGED OthersCtrl

\* For.handleIdent for an INTEGER variable; the expressions of the header
\* are those of SpecFor and write nothing to the generator of the statement.
CtrlForHandleIdent ==
    /\ StatementMayBegin
    /\ ctrl' = Enter(ctrl, "For", "header", <<"for (", "v", " = ", "e">>)
    /\ UNCHANGED OthersCtrl

\* For.handleBegin: the rest of the header, then the body is opened.
CtrlForHandleBegin ==
    /\ ctrl.kind = "For" /\ ctrl.phase = "header" /\ ctrl.error = "none"
    /\ ctrl' = [ctrl EXCEPT !.out = @ \o <<"; v <= to; ++v)", "{">>,
                            !.phase = "body", !.nexpr = @ + 1]
    /\ UNCHANGED OthersCtrl

\* A For.endParse that leaves the body open.
CtrlForEndParseOpen ==
    /\ ctrl.kind = "For" /\ ctrl.phase = "body" /\ ctrl.error = "none"
    /\ ctrl' = Leave(ctrl, <<>>)
    /\ UNCHANGED OthersCtrl

\* For.endParse.
CtrlForEndParse ==
    /\ ctrl.kind = "For" /\ ctrl.phase = "body" /\ ctrl.error = "none"
    /\ ctrl' = Leave(ctrl, <<"}">>)
    /\ UNCHANGED OthersCtrl

\* Case.init.
CaseInit ==
    /\ StatementMayBegin
    /\ ctrl' = Enter(ctrl, "Case", "condition", <<"var ", caseVar, " = ">>)
    /\ UNCHANGED OthersCtrl

\* Case.handleExpression, lines 1339-1354, for every type of expression;
\* the alternatives that follow are those of SpecCase.
CaseExpression(type) ==
    /\ ConditionMayCome("Case")
    /\ LET c == IF type = "String1" THEN [ctrl EXCEPT !.out = @ \o <<"v">>]
                ELSE ctrl
           t == IF type = "String1" THEN "CHAR" ELSE type
       IN ctrl' = IF t \notin {"INTEGER", "BYTE"} /\ t # "CHAR"
                  THEN [c EXCEPT !.error = "CaseExpressionType"]
                  ELSE Leave([c EXCEPT !.type = t, !.nexpr = @ + 1], <<";\n">>)
    /\ UNCHANGED OthersCtrl

InitCtrl == ctrl = CtrlStart /\ IdleExcept("ctrl")

NextCtrl ==
    \/ IfInit
    \/ \E type \in CtrlTypes : IfHandleExpression(type)
    \/ \E s \in {"ELSIF", "ELSE"} : IfHandleLiteral(s)
    \/ IfEndParse
    \/ WhileInit
    \/ \E type \in CtrlTypes : WhileHandleExpression(type)
    \/ WhileHandleLiteral
    \/ WhileEndParse
    \/ RepeatInit
    \/ UntilInit
    \/ \E type \in CtrlTypes : UntilHandleExpression(type)
    \/ UntilEndParse
    \/ CtrlForHandleIdent
    \/ CtrlForHandleBegin
    \/ CtrlForEndParse
    \/ CaseInit
    \/ \E type \in CtrlTypes : CaseExpression(type)

SpecCtrl == InitCtrl /\ [][NextCtrl]_vars

\* C29: every condition of IF, ELSIF, WHILE and UNTIL must be of the type
\* BOOLEAN exactly, else translation fails with a type error and nothing
\* more is written; the expression of CASE must be of an integer type or
\* CHAR, a string of one character counting as CHAR, else translation
\* fails.
C29_ControllingExpression ==
    [][\A type \in CtrlTypes :
         /\ (IfHandleExpression(type) \/ WhileHandleExpression(type)
               \/ UntilHandleExpression(type)) =>
              /\ type # "BOOLEAN" <=> ctrl'.error = "BooleanExpected"
              /\ type = "BOOLEAN" <=> ctrl'.error = "none"
              /\ type # "BOOLEAN" => ctrl'.out = ctrl.out
         /\ CaseExpression(type) =>
              /\ type \in {"INTEGER", "BYTE", "CHAR", "String1"}
                   <=> ctrl'.error = "none"
              /\ type \notin {"INTEGER", "BYTE", "CHAR", "String1"}
                   <=> ctrl'.error = "CaseExpressionType"
              /\ type \in {"CHAR", "String1"} => ctrl'.type = "CHAR"
      ]_vars

\* The condition of an ELSIF of a WHILE was an INTEGER and was refused,
\* after the first condition, a BOOLEAN, had been accepted.
C29_Witness ==
    /\ ctrl.kind = "While" /\ ctrl.error = "BooleanExpected"
    /\ ctrl.nexpr = 1
    /\ ctrl.out = <<"while (true)", "{", "if (", ")", "{", "}", "else if (">>

\* The depth of the scopes after a text: one more for every openScope, one
\* less for every closeScope; -1 once more were closed than were open.
RECURSIVE ScopeDepth(_, _)
ScopeDepth(text, d) ==
    IF d < 0 \/ text = <<>> THEN d
    ELSE ScopeDepth(Tail(text), CASE Head(text) = "{" -> d + 1
                                  [] Head(text) = "}" -> d - 1
                                  [] OTHER -> d)

\* The scopes of a text are bracketed: none is closed before it is opened
\* and none stays open.
Bracketed(text) == ScopeDepth(text, 0) = 0

\* The text of the statement that ends with this step.
StatementText == SubSeq(ctrl'.out, Top(ctrl.stack).mark + 1, Len(ctrl'.out))

\* C34: in the text of every complete IF, WHILE, REPEAT .. UNTIL and FOR
\* each openScope is matched by exactly one later closeScope, in reverse
\* order, so the depth of the scopes after the statement is the depth
\* before it.
C34_BalancedScopes ==
    [][(IfEndParse \/ WhileEndParse \/ UntilEndParse \/ CtrlForEndParse) =>
          /\ Bracketed(StatementText)
          /\ ScopeDepth(ctrl'.out, 0) = ScopeDepth(SubSeq(ctrl.out, 1, Top(ctrl.stack).mark), 0)
          /\ "{" \in {StatementText[k] : k \in 1..Len(StatementText)}
      ]_vars

\* A WHILE inside the body of a FOR has ended and the FOR after it.
C34_Witness ==
    /\ ctrl.kind = "none" /\ ctrl.error = "none"
    /\ ctrl.out = <<"for (", "v", " = ", "e", "; v <= to; ++v)", "{",
                    "while (true)", "{", "if (", ")", "{", "}",
                    " else break;\n", "}", "}">>

\* C39: while an Expression context is active, text its sub-contexts write
\* through the code generator they inherit is discarded; when the
\* expression ends, its complete code is written exactly once to the code
\* generator of the parent, before the parent receives the expression
\* through handleExpression; an expression with no type, the call of a
\* procedure that returns no result, fails before anything is written.
C39_ExpressionEmission ==
    /\ [](relExpr.phase # "ended" =>
             relExpr.parentOut = <<>> /\ relExpr.received = <<>>)
    /\ [](relExpr.phase = "ended" =>
             relExpr.parentOut = <<"e">> /\ relExpr.received = <<1>>)
    /\ [][/\ SubContextWrite => relExpr'.parentOut = relExpr.parentOut
          /\ ExpressionEndParse =>
               IF relExpr.expression = <<TNoResult>>
               THEN /\ relExpr'.error = "NoResultInExpression"
                    /\ relExpr'.parentOut = relExpr.parentOut
                    /\ relExpr'.received = relExpr.received
               ELSE /\ relExpr'.error = "none"
                    /\ relExpr'.parentOut = Append(relExpr.parentOut, "e")
                    /\ relExpr'.received = <<Len(relExpr'.parentOut)>>
         ]_vars

\* A relation whose sub-contexts wrote text has ended: the parent got the
\* code of the expression alone, and then the expression.
C39_Witness ==
    /\ relExpr.phase = "ended" /\ relExpr.relation # ""
    /\ relExpr.written > 0
    /\ relExpr.parentOut = <<"e">>

(***************************************************************************)
(* genTypeName: the names of the constructors of record types.             *)
(*                                                                         *)
(* decl is the declaration that is open: <<"TypeDeclaration", id>> for     *)
(* TYPE id = ..., <<"VariableDeclaration">> for VAR v: ..., <<>> for       *)
(* none.  stack holds the contexts open below it, gen is Context.__gen     *)
(* and requests lists the calls of genTypeName made by RecordDecl.init:    *)
(* the name returned, a sequence of text tokens, and whether the record    *)
(* is anonymous (parent.isAnonymousDeclaration()).                         *)
(***************************************************************************)
OthersNames == <<cast, forLoop, desig, fwd, unit, rec, arr, caseStmt, expr, constDecl, expo, typeDecl, chain, imp, relExpr, setLit, ctrl, promo, heading>>

NamesStart == [decl |-> <<>>, stack |-> <<>>, gen |-> 0, requests |-> <<>>,
               abandoned |-> 0]

\* genTypeName called on the parent of a new context: every context
\* below the declaration inherits it from ChainedContext, TypeDeclaration
\* answers with the declared name, and under any other declaration the
\* call ends at Context.genTypeName, which counts.
genTypeName(n) ==
    IF n.decl[1] = "TypeDeclaration"
    THEN [gen |-> n.gen, name |-> <<n.decl[2]>>]
    ELSE [gen |-> n.gen + 1, name |-> <<"anonymous$", ToString(n.gen + 1)>>]

\* parent.isAnonymousDeclaration() for a context made on top of the stack:
\* only TypeDeclaration answers false.
isAnonymousDeclaration(n) == ~(n.stack = <<>> /\ n.decl[1] = "TypeDeclaration")

\* TypeDeclaration.handleIdentdef: TYPE id = ... begins.
NamesTypeDeclaration(id) ==
    /\ names.decl = <<>>
    /\ Len(names.requests) < MaxNames
    /\ names' = [names EXCEPT !.decl = <<"TypeDeclaration", id>>]
    /\ UNCHANGED OthersNames

\* VariableDeclaration.init: VAR v: ... begins.
NamesVariableDeclaration ==
    /\ names.decl = <<>>
    /\ Len(names.requests) < MaxNames
    /\ names' = [names EXCEPT !.decl = <<"VariableDeclaration">>]
    /\ UNCHANGED OthersNames

\* RecordDecl.init: the constructor name is asked of the parent.
NamesRecordDeclInit ==
    /\ names.decl # <<>>
    /\ names.stack # <<>> => Top(names.stack) # "RecordDecl"
    /\ Len(names.stack) < MaxDepth
    /\ Len(names.requests) < MaxNames
    /\ LET g == genTypeName(names)
       IN names' = [names EXCEPT
                      !.gen = g.gen,
                      !.requests = Append(@, [name |-> g.name,
                                              anonymous |-> isAnonymousDeclaration(names)]),
                      !.stack = Append(@, "RecordDecl")]
    /\ UNCHANGED OthersNames

\* FieldListDeclaration.init, PointerDecl.init and ArrayDecl.init.
NamesContextInit(kind) ==
    /\ names.decl # <<>>
    /\ kind = "FieldListDeclaration" <=>
          (names.stack # <<>> /\ Top(names.stack) = "RecordDecl")
    /\ Len(names.stack) < MaxDepth
    /\ names' = [names EXCEPT !.stack = Append(@, kind)]
    /\ UNCHANGED OthersNames

\* endParse of the innermost context, or of the declaration.
NamesEndParse ==
    /\ names.decl # <<>>
    /\ names' = IF names.stack = <<>> THEN [names EXCEPT !.decl = <<>>]
                ELSE [names EXCEPT !.stack = Front(@)]
    /\ UNCHANGED OthersNames

\* An error is thrown inside the declaration: its contexts are given up,
\* the Context and its counter stay.
NamesAbandon ==
    /\ names.decl # <<>> /\ names.stack # <<>>
    /\ names.abandoned < MaxLen
    /\ names' = [names EXCEPT !.decl = <<>>, !.stack = <<>>,
                              !.abandoned = @ + 1]
    /\ UNCHANGED OthersNames

InitNames == names = NamesStart /\ IdleExcept("names")

NextNames ==
    \/ \E id \in {"T", "U"} : NamesTypeDeclaration(id)
    \/ NamesVariableDeclaration
    \/ NamesRecordDeclInit
    \/ \E kind \in {"FieldListDeclaration", "PointerDecl", "ArrayDecl"} :
          NamesContextInit(kind)
    \/ NamesEndParse
    \/ NamesAbandon

SpecNames == InitNames /\ [][NextNames]_vars

\* C31: the name generated for an anonymous type is the prefix followed by
\* an integer from a counter that grows with every request, and no two
\* requests of one compilation unit return the same name, also after a
\* declaration that asked for a name was given up because of an error.
C31_GeneratedNames ==
      /\ \A k \in 1..Len(names.requests) :
           names.requests[k].anonymous =>
              /\ Len(names.requests[k].name) = 2
              /\ names.requests[k].name[1] = "anonymous$"
      /\ \A j, k \in 1..Len(names.requests) :
           j # k => names.requests[j].name # names.requests[k].name

(***************************************************************************)
(* The promotion of a string of one character to CHAR at the three places  *)
(* that take it: the operands of a relation, a label of CASE and the       *)
(* expression of CASE.  An operand is its type with its constant value;    *)
(* the value of a string is the sequence of the codes of its characters.   *)
(***************************************************************************)
OthersPromo == <<cast, forLoop, desig, fwd, unit, rec, arr, caseStmt, expr, constDecl, expo, typeDecl, chain, imp, relExpr, setLit, ctrl, names, heading>>

CharCodes == {65, 66}

RECURSIVE StringsOf(_)
StringsOf(n) ==
    IF n = 0 THEN {<<>>}
    ELSE {<<>>} \cup {<<c>> \o s : c \in CharCodes, s \in StringsOf(n - 1)}

PromoOperands ==
    {[type |-> StringType(Len(s)), value |-> s] : s \in StringsOf(MaxLen)}
      \cup {[type |-> TCh, value |-> c] : c \in CharCodes}
      \cup {[type |-> TInt, value |-> 1]}

\* promoteTypeInExpression on an expression: Code.makeExpression(v, type)
\* with v the code of the character.
promoteExpression(e, type) ==
    IF promoteTypeInExpression(e.type, type) = e.type THEN e
    ELSE [type |-> TCh, value |-> e.value[1]]

\* Expression.handleSimpleExpression for the right operand: the left
\* operand is promoted by the type of the right one, then the right one by
\* the type the left one has by then.
PromoHandleSimpleExpression ==
    /\ promo.phase = "start"
    /\ LET leftExpression == promoteExpression(promo.left, promo.right.type)
           rightExpression == promoteExpression(promo.right, leftExpression.type)
       IN promo' = [promo EXCEPT !.phase = "comparison",
                                 !.l = <<leftExpression>>,
                                 !.r = <<rightExpression>>]
    /\ UNCHANGED OthersPromo

\* CaseRange.handleConst for the left operand as the label.
PromoCaseRangeHandleConst ==
    /\ promo.phase = "start"
    /\ promo' =
         IF isString(promo.left.type)
         THEN IF ~stringAsChar(promo.left.type)
              THEN [promo EXCEPT !.phase = "label",
                                 !.error = "SingleCharStringExpected"]
              ELSE [promo EXCEPT !.phase = "label",
                                 !.l = <<[type |-> TCh, value |-> promo.left.value[1]]>>]
         ELSE [promo EXCEPT !.phase = "label", !.l = <<promo.left>>]
    /\ UNCHANGED OthersPromo

\* Case.handleExpression for the left operand as the expression of CASE;
\* out is what it writes after the code of the expression.
PromoCaseHandleExpression ==
    /\ promo.phase = "start"
    /\ LET type == promo.left.type
           promoted == isString(type) /\ stringAsChar(type)
           t == IF promoted THEN TCh ELSE type
           p1 == IF promoted THEN [promo EXCEPT !.out = <<promo.left.value[1]>>]
                 ELSE promo
       IN promo' =
            IF ~isInt(t) /\ t # TCh
            THEN [p1 EXCEPT !.phase = "expression", !.error = "CaseExpressionType"]
            ELSE [p1 EXCEPT !.phase = "expression",
                            !.l = <<[type |-> t, value |-> promo.left.value]>>,
                            !.out = @ \o <<";\n">>]
    /\ UNCHANGED OthersPromo

InitPromo ==
    /\ \E left \in PromoOperands, right \in PromoOperands :
          promo = [phase |-> "start", left |-> left, right |-> right,
                   l |-> <<>>, r |-> <<>>, out |-> <<>>, error |-> "none"]
    /\ IdleExcept("promo")

NextPromo ==
    \/ PromoHandleSimpleExpression
    \/ PromoCaseRangeHandleConst
    \/ PromoCaseHandleExpression

SpecPromo == InitPromo /\ [][NextPromo]_vars

\* The character constant a string of one character stands for.
AsChar(e) == [type |-> TCh, value |-> e.value[1]]

OneChar(e) == isString(e.type) /\ Len(e.value) = 1

\* C32: where a character is required, a string literal of exactly one
\* character is replaced by the character constant holding its code and a
\* string of any other length is never promoted: in a comparison an
\* operand is replaced when the other operand is a character, and not when
\* both are strings; a label and the expression of CASE are replaced, and
\* strings of other lengths are refused there.
C32_CharPromotion ==
    /\ promo.phase = "comparison" =>
         /\ promo.l = <<IF OneChar(promo.left) /\ promo.right.type = TCh
                        THEN AsChar(promo.left) ELSE promo.left>>
         /\ promo.r = <<IF OneChar(promo.right) /\ promo.left.type = TCh
                        THEN AsChar(promo.right) ELSE promo.right>>
         /\ (isString(promo.left.type) /\ isString(promo.right.type)) =>
               promo.l = <<promo.left>> /\ promo.r = <<promo.right>>
    /\ promo.phase = "label" =>
         /\ OneChar(promo.left) => promo.l = <<AsChar(promo.left)>>
         /\ (isString(promo.left.type) /\ ~OneChar(promo.left)) =>
               promo.l = <<>> /\ promo.error = "SingleCharStringExpected"
    /\ promo.phase = "expression" =>
         /\ OneChar(promo.left) =>
               /\ promo.l = <<[type |-> TCh, value |-> promo.left.value]>>
               /\ promo.out = <<promo.left.value[1], ";\n">>
         /\ (isString(promo.left.type) /\ ~OneChar(promo.left)) =>
               promo.l = <<>> /\ promo.error = "CaseExpressionType"

\* "A" was compared with a character and taken as the character 65.
C32_Witness ==
    /\ promo.phase = "comparison"
    /\ promo.left = [type |-> StringType(1), value |-> <<65>>]
    /\ promo.right.type = TCh
    /\ promo.l = <<[type |-> TCh, value |-> 65]>>

(***************************************************************************)
(* The heading of a procedure declaration: ProcDecl with its               *)
(* FormalParametersProcDecl and the ProcParams context of its parameter    *)
(* groups.                                                                 *)
(*                                                                         *)
(* outer holds the names of the scope that encloses the declaration, own   *)
(* the symbols of the scope of the procedure in the order they were        *)
(* added, arguments is FormalParameters.__arguments, isVar and             *)
(* argNamesForType are the fields of ProcParams, src lists what the        *)
(* parser delivered to ProcParams and out is the text written.             *)
(***************************************************************************)
OthersHeading == <<cast, forLoop, desig, fwd, unit, rec, arr, caseStmt, expr, constDecl, expo, typeDecl, chain, imp, relExpr, setLit, ctrl, names, promo>>

ArgNames == {"a", "b", "P"}
ArgTypes == {"INTEGER", "ARRAY", "RECORD"}

HeadingStart == [stage |-> "start", id |-> "", outer |-> {}, own |-> <<>>,
                 arguments |-> <<>>, isVar |-> FALSE,
                 argNamesForType |-> <<>>, src |-> <<>>, out |-> <<>>,
                 resolved |-> "", error |-> "none"]

\* ProcDecl.handleIdentdef: the prolog is written and the scope of the
\* procedure pushed.
HeadingHandleIdentdef(id) ==
    /\ heading.stage = "start"
    /\ heading' = [heading EXCEPT !.stage = "ident", !.id = id,
                                  !.out = <<"\nfunction ", id, "(">>]
    /\ UNCHANGED OthersHeading

\* A setType that adds the symbol of the procedure to the scope on top of
\* the stack.
procDeclSetTypeCurrentScope(h) ==
    [h EXCEPT !.own = Append(@, [name |-> h.id, type |-> "PROCEDURE",
                                 byRef |-> FALSE, readOnly |-> FALSE])]

\* ProcDecl.setType: the symbol of the procedure is added to __outerScope.
procDeclSetType(h) == [h EXCEPT !.outer = @ \cup {h.id}]

\* FormalParameters.init: the type of the procedure is made and given to
\* the parent.
FormalParametersInit ==
    /\ heading.stage = "ident"
    /\ heading' = [procDeclSetType(heading) EXCEPT !.stage = "formal"]
    /\ UNCHANGED OthersHeading

\* ProcDecl._makeArgumentVariable.
makeArgumentVariable(type, isVar) ==
    LET readOnly == ~isVar /\ type \in {"ARRAY", "RECORD"}
    IN IF isVar THEN [type |-> type, byRef |-> TRUE, readOnly |-> FALSE]
       ELSE [type |-> type, byRef |-> FALSE, readOnly |-> readOnly]

\* FormalParametersProcDecl.handleMessage for an AddArgumentMsg: the
\* argument is kept, then ProcDecl.__addArgument declares it in the current
\* scope and writes it.  Scope.addSymbol refuses a name that is declared.
addArgument(h, name, type, isVar) ==
    LET h1 == [h EXCEPT !.arguments = Append(@, [type |-> type, isVar |-> isVar])]
        v == makeArgumentVariable(type, isVar)
    IN IF name = h.id THEN [h1 EXCEPT !.error = "ArgumentNameCollision"]
       ELSE IF \E k \in 1..Len(h.own) : h.own[k].name = name
       THEN [h1 EXCEPT !.error = "DuplicateSymbol"]
       ELSE [h1 EXCEPT
               !.own = Append(@, [name |-> name, type |-> v.type,
                                  byRef |-> v.byRef, readOnly |-> v.readOnly]),
               !.out = @ \o (IF h.arguments = <<>> THEN <<>> ELSE <<", ">>)
                         \o <<name, "/*", type, "*/">>]

\* The loop of ProcParams.setType; an error ends it.
RECURSIVE addArguments(_, _, _, _)
addArguments(h, ids, type, isVar) ==
    IF ids = <<>> \/ h.error # "none" THEN h
    ELSE addArguments(addArgument(h, Head(ids), type, isVar),
                      Tail(ids), type, isVar)

ProcParamsOpen == heading.stage = "formal" /\ heading.error = "none"

\* VAR was the last that came: the names of its group must follow.
AfterVar == heading.src # <<>> /\ Top(heading.src) = "VAR"

\* ProcParams.handleLiteral: VAR at the beginning of a group.
ProcParamsHandleLiteral ==
    /\ ProcParamsOpen
    /\ heading.argNamesForType = <<>>
    /\ ~AfterVar
    /\ Len(heading.own) < MaxNames
    /\ heading' = [heading EXCEPT !.isVar = TRUE, !.src = Append(@, "VAR")]
    /\ UNCHANGED OthersHeading

\* ProcParams.handleIdent: one more name of the group.
ProcParamsHandleIdent(id) ==
    /\ ProcParamsOpen
    /\ Len(heading.own) + Len(heading.argNamesForType) < MaxNames
    /\ heading' = [heading EXCEPT !.argNamesForType = Append(@, id),
                                  !.src = Append(@, id)]
    /\ UNCHANGED OthersHeading

\* A setType that keeps the VAR flag for the groups that follow.
ProcParamsSetTypeKeepsVar(type) ==
    /\ ProcParamsOpen
    /\ heading.argNamesForType # <<>>
    /\ LET h == addArguments([heading EXCEPT !.src = @ \o <<":", type>>],
                             heading.argNamesForType, type, heading.isVar)
       IN heading' = IF h.error # "none" THEN h
                     ELSE [h EXCEPT !.argNamesForType = <<>>]
    /\ UNCHANGED OthersHeading

\* ProcParams.setType: the type of the group has been read.
ProcParamsSetType(type) ==
    /\ ProcParamsOpen
    /\ heading.argNamesForType # <<>>
    /\ LET h == addArguments([heading EXCEPT !.src = @ \o <<":", type>>],
                             heading.argNamesForType, type, heading.isVar)
       IN heading' = IF h.error # "none" THEN h
                     ELSE [h EXCEPT !.isVar = FALSE, !.argNamesForType = <<>>]
    /\ UNCHANGED OthersHeading

\* FormalParametersProcDecl.endParse: endParametersMsg makes ProcDecl close
\* the parameter list and open the body.
HeadingEndParse ==
    /\ ProcParamsOpen
    /\ heading.argNamesForType = <<>>
    /\ ~AfterVar
    /\ heading' = [heading EXCEPT !.stage = "body", !.out = @ \o <<")", "{">>]
    /\ UNCHANGED OthersHeading

\* Context.findSymbol from the body: the scope of the procedure is searched
\* before the one that encloses it.
HeadingFindSymbol(id) ==
    /\ heading.stage = "body" /\ heading.error = "none"
    /\ heading.resolved = ""
    /\ heading' =
         IF \E k \in 1..Len(heading.own) : heading.own[k].name = id
         THEN [heading EXCEPT !.resolved = "own"]
         ELSE IF id \in heading.outer THEN [heading EXCEPT !.resolved = "outer"]
         ELSE [heading EXCEPT !.error = "UndeclaredIdentifier"]
    /\ UNCHANGED OthersHeading

InitHeading == heading = HeadingStart /\ IdleExcept("heading")

NextHeading ==
    \/ \E id \in ProcNames : HeadingHandleIdentdef(id)
    \/ FormalParametersInit
    \/ ProcParamsHandleLiteral
    \/ \E id \in ArgNames : ProcParamsHandleIdent(id)
    \/ \E type \in ArgTypes : ProcParamsSetType(type)
    \/ HeadingEndParse
    \/ \E id \in ProcNames : HeadingFindSymbol(id)

SpecHeading == InitHeading /\ [][NextHeading]_vars

OwnNames(h) == [k \in 1..Len(h.own) |-> h.own[k].name]

\* C36: the symbol of the procedure is added to the scope that encloses the
\* declaration when its formal parameters begin, before any argument or
\* statement of the body is processed, so the name of the procedure
\* resolves inside its body; every formal parameter is declared in the
\* fresh scope of the procedure and not in the enclosing one, in the order
\* of declaration; a parameter named as the procedure is rejected with
\* ArgumentNameCollision.
C36_ProcedureOrdering ==
    /\ [](heading.stage \in {"start", "ident"} =>
             heading.outer = {} /\ heading.own = <<>> /\ heading.arguments = <<>>)
    /\ [](heading.stage \in {"formal", "body"} => heading.outer = {heading.id})
    /\ [][/\ \A type \in ArgTypes : ProcParamsSetType(type) =>
               LET group == heading.argNamesForType
                   clash == {k \in 1..Len(group) : group[k] = heading.id}
               IN /\ clash # {} =>
                       \/ heading'.error = "ArgumentNameCollision"
                       \/ heading'.error = "DuplicateSymbol"
                  /\ clash = {} => heading'.error # "ArgumentNameCollision"
                  /\ heading'.error = "ArgumentNameCollision" =>
                       heading.id \notin SeqToSet(OwnNames(heading'))
                  /\ heading'.error = "none" =>
                       OwnNames(heading') = OwnNames(heading) \o group
                  /\ heading'.outer = heading.outer
          /\ HeadingFindSymbol(heading.id) =>
               heading'.error = "none" /\ heading'.resolved = "outer"
      ]_vars

\* PROCEDURE P(a, b: INTEGER) has resolved P in its own body.
C36_Witness ==
    /\ heading.stage = "body" /\ heading.id = "P"
    /\ OwnNames(heading) = <<"a", "b">>
    /\ heading.resolved = "outer"

\* The arguments a parameter list stands for, read off what was delivered
\* to ProcParams: VAR makes the group it begins by-reference, a name waits
\* for the type of its group, and the type after ":" ends the group.
RECURSIVE GroupArguments(_, _, _)
GroupArguments(src, byRef, pending) ==
    IF src = <<>> THEN <<>>
    ELSE IF Head(src) = "VAR" THEN GroupArguments(Tail(src), TRUE, pending)
    ELSE IF Head(src) = ":"
    THEN [k \in 1..Len(pending) |->
            [name |-> pending[k], type |-> src[2], byRef |-> byRef,
             readOnly |-> ~byRef /\ src[2] \in {"ARRAY", "RECORD"}]]
           \o GroupArguments(Tail(Tail(src)), FALSE, <<>>)
    ELSE GroupArguments(Tail(src), byRef, Append(pending, Head(src)))

\* C37: all names of one group of formal parameters share the type and the
\* by-reference flag of the group, one argument is made for each name in
\* the order of the source, and the VAR flag and the list of pending names
\* are reset after each group, so that a VAR group followed by a group
\* without VAR gives by-reference parameters followed by by-value ones;
\* by-value parameters of array or record type are read-only, all other
\* by-value parameters are writable, and by-reference parameters are
\* references.
C37_ParameterGroups ==
    /\ []((heading.stage \in {"formal", "body"} /\ heading.error = "none") =>
            LET expected == GroupArguments(heading.src, FALSE, <<>>)
            IN /\ heading.own = expected
               /\ heading.arguments =
                    [k \in 1..Len(expected) |->
                       [type |-> expected[k].type, isVar |-> expected[k].byRef]])
    /\ [][\A type \in ArgTypes :
            (ProcParamsSetType(type) /\ heading'.error = "none") =>
               ~heading'.isVar /\ heading'.argNamesForType = <<>>
         ]_vars

\* (VAR a: RECORD; b: RECORD): a is a reference, b a read-only variable.
C37_Witness ==
    /\ heading.stage = "body" /\ heading.error = "none"
    /\ heading.own = <<[name |-> "a", type |-> "RECORD", byRef |-> TRUE,
                        readOnly |-> FALSE],
                       [name |-> "b", type |-> "RECORD", byRef |-> FALSE,
                        readOnly |-> TRUE]>>

====
